---- MODULE Spec2Model ----
(***************************************************************************)
(* Model of the ANBIMA curve core of indicadores-macro-br:                 *)
(*   curvas_anbima.py            history file, interpolation, curve tables *)
(*   analise_tesouro_vs_curva.py bond-vs-curve comparators                 *)
(*   tesouro_direto.py           bond-quote loader                         *)
(*                                                                         *)
(* Rates are IEEE doubles in the source.  They are modelled as exact       *)
(* rationals (in percent) extended with NaN; Python's None is a third      *)
(* kind of value.  Dates are day ordinals counted from 2023-01-01 = 0.     *)
(***************************************************************************)
EXTENDS Integers, Sequences, FiniteSets, TLC

VARIABLES
    hist,        \* rows of data/curvas_anbima/curvas_anbima_full.csv, <<>> when the file is absent
    relogio,     \* today's calendar date (datetime.now().date())
    atualizacoes,\* number of atualizar_todas_as_curvas calls made so far
    chamada,     \* the most recent call: its name, date, inputs and returned table
    td_file,     \* rows of tesouro_direto_bruto.csv, <<>> when the file is absent
    td_cache,    \* the lru_cache of carregar_tesouro_bruto
    df_dia,      \* SpecInterp: the snapshot handed to the interpolator
    anos,        \* SpecInterp: the requested maturity in years (a rational)
    linha,       \* SpecInterp: the derived vertex computed from df_dia/anos
    spread,      \* SpecSinal: the spread_bps handed to classificar_spread
    limiar,      \* SpecSinal: the limiar_bps handed to classificar_spread
    sinal,       \* SpecSinal: what classificar_spread returned
    td_dia,      \* the day of the call that filled td_cache (SemDia while it is empty)
    di_file,     \* rows of data/di_futuro/di1_historico.csv, <<>> when absent or empty
    rq,          \* SpecRetry: the retry loop in progress
    lote,        \* SpecLote: the run of atualiza_dados_pesados.main
    wr           \* SpecEscritores: the executions of _append_historico_full in progress

vars == <<hist, relogio, atualizacoes, chamada, td_file, td_cache, df_dia, anos, linha,
          spread, limiar, sinal, td_dia, di_file, rq, lote, wr>>

varsTesouro == <<td_file, td_cache, td_dia>>

varsCurva == <<hist, relogio, atualizacoes, chamada>>
varsInterp == <<df_dia, anos, linha>>
varsSinal == <<spread, limiar, sinal>>
varsOutros == <<di_file, rq, lote, wr>>

-----------------------------------------------------------------------------
(* Values: Python None, float NaN, and finite floats as rationals n/d.     *)

None == [t |-> "None", n |-> 0, d |-> 1]
NaN  == [t |-> "NaN",  n |-> 0, d |-> 1]

Abs(x) == IF x < 0 THEN -x ELSE x

RECURSIVE Gcd(_, _)
Gcd(a, b) == IF b = 0 THEN a ELSE Gcd(b, a % b)

\* the finite float n/d, in lowest terms with a positive denominator
Num(n, d) ==
    LET s == IF d < 0 THEN -1 ELSE 1
        g == Gcd(Abs(n), Abs(d))
    IN  [t |-> "num", n |-> (s * n) \div g, d |-> (s * d) \div g]

Int2F(i) == Num(i, 1)

IsNum(x) == x.t = "num"

\* pd.notnull / Series.notna: None and NaN are both "null" for pandas
notnull(x) == x.t = "num"

\* float arithmetic: NaN is absorbing
FAdd(x, y) == IF IsNum(x) /\ IsNum(y) THEN Num(x.n * y.d + y.n * x.d, x.d * y.d) ELSE NaN
FSub(x, y) == IF IsNum(x) /\ IsNum(y) THEN Num(x.n * y.d - y.n * x.d, x.d * y.d) ELSE NaN
FMul(x, y) == IF IsNum(x) /\ IsNum(y) THEN Num(x.n * y.n, x.d * y.d) ELSE NaN
FDiv(x, y) == IF IsNum(x) /\ IsNum(y) /\ y.n # 0 THEN Num(x.n * y.d, x.d * y.n) ELSE NaN

\* comparisons of finite floats (every comparison with NaN is false)
FLe(x, y) == IsNum(x) /\ IsNum(y) /\ x.n * y.d <= y.n * x.d
FLt(x, y) == IsNum(x) /\ IsNum(y) /\ x.n * y.d <  y.n * x.d
FGe(x, y) == FLe(y, x)
FGt(x, y) == FLt(y, x)

\* Python round(): nearest integer, ties to the even one; argument n/d, d > 0
round(x) ==
    LET q == x.n \div x.d
        r == x.n % x.d
    IN  IF 2 * r < x.d THEN q
        ELSE IF 2 * r > x.d THEN q + 1
        ELSE IF q % 2 = 0 THEN q ELSE q + 1

-----------------------------------------------------------------------------
(* datetime.date as a day ordinal, 2023-01-01 = 0 (proleptic Gregorian).   *)

AnoBase == 2023

Bissexto(y) == (y % 4 = 0 /\ y % 100 # 0) \/ y % 400 = 0

DiasDoAno(y) == IF Bissexto(y) THEN 366 ELSE 365

DiasDoMes(y, m) ==
    IF m = 2 THEN (IF Bissexto(y) THEN 29 ELSE 28)
    ELSE IF m \in {4, 6, 9, 11} THEN 30 ELSE 31

RECURSIVE DiasAntesDoAno(_)
DiasAntesDoAno(y) == IF y <= AnoBase THEN 0 ELSE DiasAntesDoAno(y - 1) + DiasDoAno(y - 1)

RECURSIVE DiasAntesDoMes(_, _)
DiasAntesDoMes(y, m) == IF m <= 1 THEN 0 ELSE DiasAntesDoMes(y, m - 1) + DiasDoMes(y, m - 1)

\* date(y, m, d)
date(y, m, d) == DiasAntesDoAno(y) + DiasAntesDoMes(y, m) + (d - 1)

\* dt.year
RECURSIVE AnoDesde(_, _)
AnoDesde(dt, y) == IF dt < DiasDoAno(y) THEN y ELSE AnoDesde(dt - DiasDoAno(y), y + 1)

year(dt) == AnoDesde(dt, AnoBase)

-----------------------------------------------------------------------------
(* DataFrame helpers.  A DataFrame is a sequence of rows (records).        *)

\* df.sort_values("PRAZO_DU"): ascending, insertion into a sorted prefix
RECURSIVE InsertPorPrazo(_, _)
InsertPorPrazo(r, s) ==
    IF s = <<>> THEN <<r>>
    ELSE IF r.PRAZO_DU < Head(s).PRAZO_DU THEN <<r>> \o s
    ELSE <<Head(s)>> \o InsertPorPrazo(r, Tail(s))

RECURSIVE SortPorPrazo(_)
SortPorPrazo(df) ==
    IF df = <<>> THEN <<>>
    ELSE InsertPorPrazo(df[Len(df)], SortPorPrazo(SubSeq(df, 1, Len(df) - 1)))

\* df["diff"] = (df["PRAZO_DU"] - alvo_du).abs(); df.sort_values("diff")
RECURSIVE InsertPorDiff(_, _, _)
InsertPorDiff(r, s, alvo_du) ==
    IF s = <<>> THEN <<r>>
    ELSE IF Abs(r.PRAZO_DU - alvo_du) < Abs(Head(s).PRAZO_DU - alvo_du) THEN <<r>> \o s
    ELSE <<Head(s)>> \o InsertPorDiff(r, Tail(s), alvo_du)

RECURSIVE SortPorDiff(_, _)
SortPorDiff(df, alvo_du) ==
    IF df = <<>> THEN <<>>
    ELSE InsertPorDiff(df[Len(df)], SortPorDiff(SubSeq(df, 1, Len(df) - 1), alvo_du), alvo_du)

\* df.tail(1) and df.head(1)
tail1(df) == IF df = <<>> THEN <<>> ELSE <<df[Len(df)]>>
head1(df) == IF df = <<>> THEN <<>> ELSE <<df[1]>>

-----------------------------------------------------------------------------
(* curvas_anbima._extrair_vertice_dia                                      *)

DU_POR_ANO == 252

\* alvo_du = int(round(anos * 252))
alvo_du_de(a) == round(FMul(a, Int2F(DU_POR_ANO)))

\* slip: the weight of the interpolation inverted
Interpolar_peso_invertido(x0, y0, x1, y1, alvo_du) ==
    FAdd(y0, FMul(FSub(y1, y0), FDiv(Int2F(x1 - x0), Int2F(alvo_du - x0))))

\* y = y0 + (y1 - y0) * ((alvo_du - x0) / (x1 - x0))
Interpolar(x0, y0, x1, y1, alvo_du) ==
    FAdd(y0, FMul(FSub(y1, y0), FDiv(Int2F(alvo_du - x0), Int2F(x1 - x0))))

antes_de(df, alvo_du) ==
    LET Menor(r) == r.PRAZO_DU < alvo_du IN tail1(SelectSeq(df, Menor))

\* slip: tail(1) where head(1) is meant, the farthest tenor above the target
depois_de_tail(df, alvo_du) ==
    LET Maior(r) == r.PRAZO_DU > alvo_du IN tail1(SelectSeq(df, Maior))

depois_de(df, alvo_du) ==
    LET Maior(r) == r.PRAZO_DU > alvo_du IN head1(SelectSeq(df, Maior))

\* slip: the row filter dropped, df[coluna_taxa].iloc[0]
valor_exato_sem_filtro(df, alvo_du, coluna_taxa) == df[1][coluna_taxa]

\* df.loc[df["PRAZO_DU"] == alvo_du, coluna_taxa].iloc[0]
valor_exato(df, alvo_du, coluna_taxa) ==
    LET Igual(r) == r.PRAZO_DU = alvo_du IN SelectSeq(df, Igual)[1][coluna_taxa]

\* slip: the last row of the frame sorted by distance, the farthest tenor
mais_proximo_ultimo(df, alvo_du, coluna_taxa) ==
    LET ordenado == SortPorDiff(df, alvo_du)
        valor == ordenado[Len(ordenado)][coluna_taxa]
    IN  IF notnull(valor) THEN valor ELSE None

\* df.sort_values("diff").iloc[0][coluna_taxa]; None when that cell is null
mais_proximo(df, alvo_du, coluna_taxa) ==
    LET valor == SortPorDiff(df, alvo_du)[1][coluna_taxa]
    IN  IF notnull(valor) THEN valor ELSE None

\* slip: a series without valid rates yields 0.0
_extrair_vertice_dia_zero(dia, a, coluna_taxa) ==
    IF dia = <<>> THEN None
    ELSE IF \A i \in DOMAIN dia : ~notnull(dia[i][coluna_taxa]) THEN Int2F(0)
    ELSE
        LET alvo_du == alvo_du_de(a)
            df      == SortPorPrazo(dia)
            antes   == antes_de(df, alvo_du)
            depois  == depois_de(df, alvo_du)
        IN  IF \E i \in DOMAIN df : df[i].PRAZO_DU = alvo_du
            THEN valor_exato(df, alvo_du, coluna_taxa)
            ELSE IF antes # <<>> /\ depois # <<>>
            THEN Interpolar(antes[1].PRAZO_DU, antes[1][coluna_taxa],
                            depois[1].PRAZO_DU, depois[1][coluna_taxa], alvo_du)
            ELSE mais_proximo(df, alvo_du, coluna_taxa)

\* _extrair_vertice_dia(df_dia, anos, coluna_taxa): Optional[float]
_extrair_vertice_dia(dia, a, coluna_taxa) ==
    IF dia = <<>> THEN None
    ELSE IF \A i \in DOMAIN dia : ~notnull(dia[i][coluna_taxa]) THEN None
    ELSE
        LET alvo_du == alvo_du_de(a)
            df      == SortPorPrazo(dia)
            antes   == antes_de(df, alvo_du)
            depois  == depois_de(df, alvo_du)
        IN  IF \E i \in DOMAIN df : df[i].PRAZO_DU = alvo_du
            THEN valor_exato(df, alvo_du, coluna_taxa)
            ELSE IF antes # <<>> /\ depois # <<>>
            THEN Interpolar(antes[1].PRAZO_DU, antes[1][coluna_taxa],
                            depois[1].PRAZO_DU, depois[1][coluna_taxa], alvo_du)
            ELSE mais_proximo(df, alvo_du, coluna_taxa)

\* slip: breakeven starts at 0.0 instead of None
calc_breakeven_zero(nominal, real) ==
    IF nominal # None /\ real # None THEN FSub(nominal, real) ELSE Int2F(0)

\* breakeven = None; if nominal is not None and real is not None: nominal - real
calc_breakeven(nominal, real) ==
    IF nominal # None /\ real # None THEN FSub(nominal, real) ELSE None

\* the three derived values of one vertex of one day's snapshot
\* (loop body of montar_curva_anbima_hoje; else-branch of montar_curva_anbima_variacoes)
vertice_do_dia(dia, a) ==
    LET nominal == _extrair_vertice_dia(dia, a, "TAXA_PREF")
        real    == _extrair_vertice_dia(dia, a, "TAXA_IPCA")
    IN  [nominal |-> nominal, real |-> real, breakeven |-> calc_breakeven(nominal, real)]

\* slip: min() where max() is meant
max_data_curva_min(df) ==
    CHOOSE m \in {df[i].data_curva : i \in DOMAIN df} :
        \A i \in DOMAIN df : df[i].data_curva >= m

\* df["data_curva"].max() of a non-empty frame
max_data_curva(df) ==
    CHOOSE m \in {df[i].data_curva : i \in DOMAIN df} :
        \A i \in DOMAIN df : df[i].data_curva <= m

\* df[df["data_curva"] == dt]
do_dia(df, dt) == LET NoDia(r) == r.data_curva = dt IN SelectSeq(df, NoDia)

\* slip: < where <= is meant
ate_o_dia_estrito(df, dt_alvo) == LET Ate(r) == r.data_curva < dt_alvo IN SelectSeq(df, Ate)

\* df_hist[df_hist["data_curva"] <= dt_alvo]
ate_o_dia(df, dt_alvo) == LET Ate(r) == r.data_curva <= dt_alvo IN SelectSeq(df, Ate)

\* slip: the candidate rows are not narrowed to their latest curve date
vertice_do_horizonte_sem_data_ref(df_cand, a) ==
    IF df_cand = <<>>
    THEN [nominal |-> None, real |-> None, breakeven |-> None]
    ELSE vertice_do_dia(df_cand, a)

\* loop body of montar_curva_anbima_variacoes for the candidate rows of one horizon
vertice_do_horizonte(df_cand, a) ==
    IF df_cand = <<>>
    THEN [nominal |-> None, real |-> None, breakeven |-> None]
    ELSE vertice_do_dia(do_dia(df_cand, max_data_curva(df_cand)), a)

ComOp(v, op) ==
    [nominal |-> v.nominal, real |-> v.real, breakeven |-> v.breakeven, op |-> op]

NaoCalculada == [nominal |-> None, real |-> None, breakeven |-> None, op |-> "nenhuma"]

-----------------------------------------------------------------------------
(* curvas_anbima: the history file and the two curve tables.               *)

LinhaHist(dc, p, tp, ti, dr) ==
    [data_curva |-> dc, PRAZO_DU |-> p, TAXA_PREF |-> tp, TAXA_IPCA |-> ti, data_ref |-> dr]

Chave(r) == <<r.data_curva, r.PRAZO_DU>>

\* slip: keep="first"
drop_duplicates_first(df) ==
    LET Fica(i) == \A j \in 1..(i - 1) : Chave(df[j]) # Chave(df[i])
        RECURSIVE Filtra(_)
        Filtra(i) == IF i > Len(df) THEN <<>>
                     ELSE (IF Fica(i) THEN <<df[i]>> ELSE <<>>) \o Filtra(i + 1)
    IN  Filtra(1)

\* df_full.drop_duplicates(subset=["data_curva", "PRAZO_DU"], keep="last")
drop_duplicates(df) ==
    LET Fica(i) == \A j \in (i + 1)..Len(df) : Chave(df[j]) # Chave(df[i])
        RECURSIVE Filtra(_)
        Filtra(i) == IF i > Len(df) THEN <<>>
                     ELSE (IF Fica(i) THEN <<df[i]>> ELSE <<>>) \o Filtra(i + 1)
    IN  Filtra(1)

\* slip: the stored rows of the batch's curve dates are left out of the frame
pd_concat_sem_o_dia(df_old, df_new) ==
    LET DeOutroDia(r) == \A k \in DOMAIN df_new : df_new[k].data_curva # r.data_curva
    IN  SelectSeq(df_old, DeOutroDia) \o df_new

\* pd.concat([df_old, df_new], ignore_index=True)
pd_concat(df_old, df_new) == df_old \o df_new

\* slip: the old history left out of the frame that is written
_append_historico_full_sem_antigo(arquivo, df_new) ==
    IF df_new = <<>> THEN arquivo ELSE drop_duplicates(df_new)

\* the file contents after _append_historico_full(df_new) on a file holding `arquivo`
_append_historico_full(arquivo, df_new) ==
    IF df_new = <<>> THEN arquivo
    ELSE LET df_old  == arquivo
             df_full == pd_concat(df_old, df_new)
         IN  drop_duplicates(df_full)

\* _carregar_historico_full(): the rows of the file, an empty frame when it is absent
_carregar_historico_full(arquivo) == arquivo

\* vertices = [1, 2, 3, 4, 5, 6, 7, 8, 9, 10, 12, 15, 20, 25, 30]
vertices == <<1, 2, 3, 4, 5, 6, 7, 8, 9, 10, 12, 15, 20, 25, 30>>

\* montar_curva_anbima_hoje()
montar_curva_anbima_hoje(arquivo) ==
    LET df_hist == _carregar_historico_full(arquivo)
    IN  IF df_hist = <<>> THEN <<>>
        ELSE LET data_mais_recente == max_data_curva(df_hist)
                 dia == do_dia(df_hist, data_mais_recente)
             IN  [i \in DOMAIN vertices |->
                    LET v == vertice_do_dia(dia, Int2F(vertices[i]))
                    IN  [Data_da_curva |-> data_mais_recente,
                         Vertice_anos  |-> vertices[i],
                         Juro_Nominal  |-> v.nominal,
                         Juro_Real     |-> v.real,
                         Breakeven     |-> v.breakeven]]

\* the labels of datas_alvo, in insertion order
rotulos == <<"Hoje", "D-1", "1 semana", "1 mes", "Ano", "12 meses">>

\* slip: "D-1" two days back
datas_alvo_dois_dias(hoje) ==
    [r \in {rotulos[i] : i \in DOMAIN rotulos} |->
        CASE r = "Hoje"     -> hoje
          [] r = "D-1"      -> hoje - 2
          [] r = "1 semana" -> hoje - 7
          [] r = "1 mes"    -> hoje - 30
          [] r = "Ano"      -> date(year(hoje), 1, 1)
          [] r = "12 meses" -> hoje - 365]

\* datas_alvo: the target date of every horizon
datas_alvo(hoje) ==
    [r \in {rotulos[i] : i \in DOMAIN rotulos} |->
        CASE r = "Hoje"     -> hoje
          [] r = "D-1"      -> hoje - 1
          [] r = "1 semana" -> hoje - 7
          [] r = "1 mes"    -> hoje - 30
          [] r = "Ano"      -> date(year(hoje), 1, 1)
          [] r = "12 meses" -> hoje - 365]

\* montar_curva_anbima_variacoes(anos)
montar_curva_anbima_variacoes(arquivo, a) ==
    LET df_hist == _carregar_historico_full(arquivo)
    IN  IF df_hist = <<>> THEN <<>>
        ELSE LET hoje == max_data_curva(df_hist)
                 alvo == datas_alvo(hoje)
             IN  [i \in DOMAIN rotulos |->
                    LET v == vertice_do_horizonte(ate_o_dia(df_hist, alvo[rotulos[i]]), a)
                    IN  [Data         |-> rotulos[i],
                         Juro_Nominal |-> v.nominal,
                         Juro_Real    |-> v.real,
                         Breakeven    |-> v.breakeven]]

-----------------------------------------------------------------------------
(* Spec: the history file under updates and queries.                       *)

\* curve dates the publisher may stamp on a download
DatasPublicaveis == {date(2025, 1, 3), date(2024, 12, 30), date(2024, 1, 2)}

\* the vertices of the published file, in file order; a download holds the
\* first k of them
PrazosPublicaveis == <<504, 1008>>

\* the rate cells <<TAXA_PREF, TAXA_IPCA>> of two published curves
CurvasPublicadas ==
    { [p \in {504, 1008} |-> IF p = 504 THEN <<Num(11, 1), Num(6, 1)>>
                                        ELSE <<Num(1160, 100), Num(640, 100)>>],
      [p \in {504, 1008} |-> IF p = 504 THEN <<Num(1120, 100), Num(7, 1)>>
                                        ELSE <<Num(1130, 100), Num(6, 1)>>] }

\* maturities asked of montar_curva_anbima_variacoes
AnosConsulta == {2, 3}

DiaInicial == date(2025, 1, 2)
DiaFinal   == date(2025, 1, 3)

\* calls of atualizar_todas_as_curvas in one behaviour, at most
MaxAtualizacoes == 2

\* what _baixar_curva_zero_ultima() may return on day `hoje`: an empty frame
\* (HTTP error, empty body, unreadable CSV, no valid row) or the vertices of one
\* curve, rates present, sorted by PRAZO_DU, stamped with the date found in the
\* file or, failing that, with today's date
_baixar_curva_zero_ultima(hoje) ==
    {<<>>} \cup
    { SortPorPrazo([i \in 1..k |->
                      [data_curva |-> dc, PRAZO_DU |-> PrazosPublicaveis[i],
                       TAXA_PREF |-> f[PrazosPublicaveis[i]][1],
                       TAXA_IPCA |-> f[PrazosPublicaveis[i]][2]]])
        : <<dc, k, f>> \in (DatasPublicaveis \cup {hoje}) \X (1..Len(PrazosPublicaveis)) \X CurvasPublicadas }

\* df_curva["data_ref"] = data_ref
com_data_ref(df, data_ref) ==
    [i \in DOMAIN df |-> LinhaHist(df[i].data_curva, df[i].PRAZO_DU,
                                    df[i].TAXA_PREF, df[i].TAXA_IPCA, data_ref)]

\* limiar_bps: float = 20.0
LIMIAR_BPS == 20

\* classificar_spread has not been called
SemSinal == "nenhum"

\* slip: open boundaries
classificar_spread_aberto(spread_bps, limiar_bps) ==
    IF ~notnull(spread_bps) THEN "Sem dado"
    ELSE IF FGt(spread_bps, limiar_bps) THEN "Barato"
    ELSE IF FLt(spread_bps, FSub(Int2F(0), limiar_bps)) THEN "Caro"
    ELSE "No preco"

\* classificar_spread(spread_bps, limiar_bps)
classificar_spread(spread_bps, limiar_bps) ==
    IF ~notnull(spread_bps) THEN "Sem dado"
    ELSE IF FGe(spread_bps, limiar_bps) THEN "Barato"
    ELSE IF FLe(spread_bps, FSub(Int2F(0), limiar_bps)) THEN "Caro"
    ELSE "No preco"

\* lru_cache(maxsize=1) of a function without arguments: empty, or one table
CacheVazio == [cheio |-> FALSE, df |-> <<>>]

\* td_dia while the cache of carregar_tesouro_bruto holds nothing
SemDia == 0 - 1

\* rq while no retry loop runs
SemPedido ==
    [fn |-> "nenhuma", max_attempts |-> 0, attempt |-> 0, gets |-> 0, estado |-> "parado",
     last_exc |-> "", erro |-> "", respostas |-> <<>>]

\* lote before main() is called
LoteParado == [pc |-> 0, tentados |-> <<>>, falhas |-> {}, estado |-> "parado"]

\* wr while no execution of _append_historico_full is under way
SemEscritores == [n |-> 0, inicial |-> <<>>, e |-> <<>>]

SemChamada ==
    [op |-> "nenhuma", quando |-> 0, hist_antes |-> <<>>, df_curva |-> <<>>, anos |-> 0,
     erro |-> "", df_tesouro |-> <<>>, df_cmp |-> <<>>, saida |-> <<>>,
     arquivo_antes |-> <<>>, cache_antes |-> CacheVazio, dia_cache |-> SemDia,
     df_novo |-> <<>>,
     anterior |-> [op |-> "nenhuma", erro |-> "", saida |-> <<>>, cache_antes |-> CacheVazio]]

Init ==
    /\ hist = <<>>
    /\ relogio = DiaInicial
    /\ atualizacoes = 0
    /\ chamada = SemChamada
    /\ td_file = <<>>
    /\ td_cache = CacheVazio
    /\ td_dia = SemDia
    /\ df_dia = <<>>
    /\ anos = Int2F(1)
    /\ linha = NaoCalculada
    /\ spread = NaN
    /\ limiar = Int2F(LIMIAR_BPS)
    /\ sinal = SemSinal
    /\ di_file = <<>>
    /\ rq = SemPedido
    /\ lote = LoteParado
    /\ wr = SemEscritores

\* atualizar_todas_as_curvas()
AtualizarTodasAsCurvas ==
    /\ atualizacoes < MaxAtualizacoes
    /\ \E baixado \in _baixar_curva_zero_ultima(relogio) :
         LET df_curva == IF baixado = <<>> THEN <<>> ELSE com_data_ref(baixado, relogio)
         IN  /\ hist' = _append_historico_full(hist, df_curva)
             /\ chamada' = [SemChamada EXCEPT !.op = "atualizar", !.quando = relogio,
                                              !.hist_antes = hist, !.df_curva = df_curva]
    /\ atualizacoes' = atualizacoes + 1
    /\ UNCHANGED relogio
    /\ UNCHANGED varsTesouro
    /\ UNCHANGED varsInterp
    /\ UNCHANGED varsSinal
    /\ UNCHANGED varsOutros

MontarCurvaHoje ==
    /\ chamada' = [SemChamada EXCEPT !.op = "hoje", !.quando = relogio,
                                     !.saida = montar_curva_anbima_hoje(hist)]
    /\ UNCHANGED <<hist, relogio, atualizacoes>>
    /\ UNCHANGED varsTesouro
    /\ UNCHANGED varsInterp
    /\ UNCHANGED varsSinal
    /\ UNCHANGED varsOutros

MontarCurvaVariacoes ==
    /\ \E a \in AnosConsulta :
         chamada' = [SemChamada EXCEPT !.op = "variacoes", !.quando = relogio, !.anos = a,
                                       !.saida = montar_curva_anbima_variacoes(hist, Int2F(a))]
    /\ UNCHANGED <<hist, relogio, atualizacoes>>
    /\ UNCHANGED varsTesouro
    /\ UNCHANGED varsInterp
    /\ UNCHANGED varsSinal
    /\ UNCHANGED varsOutros

\* midnight
ViraODia ==
    /\ relogio < DiaFinal
    /\ relogio' = relogio + 1
    /\ UNCHANGED <<hist, atualizacoes, chamada>>
    /\ UNCHANGED varsTesouro
    /\ UNCHANGED varsInterp
    /\ UNCHANGED varsSinal
    /\ UNCHANGED varsOutros

Next ==
    \/ AtualizarTodasAsCurvas
    \/ MontarCurvaHoje
    \/ MontarCurvaVariacoes
    \/ ViraODia

Spec == Init /\ [][Next]_vars

-----------------------------------------------------------------------------
(* SpecInterp: the interpolator applied to bounded snapshots.              *)

\* tenors (business days) a snapshot may hold; the first NumPrazosInterp are used
PrazosInterp == <<504, 756, 1008, 598, 1260>>
NumPrazosInterp == 3
PrazosDoDia == {PrazosInterp[i] : i \in 1..NumPrazosInterp}

\* contents of the two rate cells of a row, <<TAXA_PREF, TAXA_IPCA>> (percent a year)
CelulasDaLinha ==
    { <<Num(11, 1), Num(6, 1)>>, <<Num(1160, 100), Num(6, 1)>>,
      <<NaN, Num(6, 1)>>, <<Num(11, 1), NaN>> }

\* requested maturities: 1, 2, 19/8 (598.5 du -> 598), 5/2 (630 du), 3, 4, 6 years
AnosPedidos == {Num(1, 1), Num(2, 1), Num(19, 8), Num(5, 2), Num(3, 1), Num(4, 1), Num(6, 1)}

\* the curve date of the snapshots of SpecInterp
DataInterp == date(2025, 1, 2)

LinhasInterp ==
    {LinhaHist(DataInterp, p, c[1], c[2], DataInterp) : p \in PrazosDoDia, c \in CelulasDaLinha}

\* every snapshot: distinct tenors, any row order, any cell contents
\* rows of a snapshot, at most
MaxLinhasDia == 3

Snapshots ==
    UNION { { s \in [1..k -> LinhasInterp] :
                \A i, j \in 1..k : i # j => s[i].PRAZO_DU # s[j].PRAZO_DU }
            : k \in 0..MaxLinhasDia }

InitInterp ==
    /\ hist = <<>>
    /\ relogio = DataInterp
    /\ atualizacoes = 0
    /\ chamada = SemChamada
    /\ td_file = <<>>
    /\ td_cache = CacheVazio
    /\ td_dia = SemDia
    /\ df_dia \in Snapshots
    /\ anos \in AnosPedidos
    /\ linha = NaoCalculada
    /\ spread = NaN
    /\ limiar = Int2F(LIMIAR_BPS)
    /\ sinal = SemSinal
    /\ di_file = <<>>
    /\ rq = SemPedido
    /\ lote = LoteParado
    /\ wr = SemEscritores

\* one iteration of the loop of montar_curva_anbima_hoje on the snapshot df_dia
MontarLinhaHoje ==
    /\ linha.op = "nenhuma"
    /\ df_dia # <<>>
    /\ linha' = ComOp(vertice_do_dia(df_dia, anos), "hoje")
    /\ UNCHANGED <<df_dia, anos>>
    /\ UNCHANGED varsCurva
    /\ UNCHANGED varsTesouro
    /\ UNCHANGED varsSinal
    /\ UNCHANGED varsOutros

\* one iteration of the loop of montar_curva_anbima_variacoes with df_cand = df_dia
MontarLinhaVariacao ==
    /\ linha.op = "nenhuma"
    /\ linha' = ComOp(vertice_do_horizonte(df_dia, anos), "variacao")
    /\ UNCHANGED <<df_dia, anos>>
    /\ UNCHANGED varsCurva
    /\ UNCHANGED varsTesouro
    /\ UNCHANGED varsSinal
    /\ UNCHANGED varsOutros

NextInterp == MontarLinhaHoje \/ MontarLinhaVariacao

SpecInterp == InitInterp /\ [][NextInterp]_vars

-----------------------------------------------------------------------------
(* Properties of the interpolator, checked under SpecInterp.               *)

Colunas == {"TAXA_PREF", "TAXA_IPCA"}

\* the value the computed vertex holds for a rate column
Resultado(col) == IF col = "TAXA_PREF" THEN linha.nominal ELSE linha.real

\* row i of df_dia is the closest observation strictly below / above the target
VizinhoAbaixo(i, alvo) ==
    /\ df_dia[i].PRAZO_DU < alvo
    /\ \A k \in DOMAIN df_dia : df_dia[k].PRAZO_DU < alvo => df_dia[k].PRAZO_DU <= df_dia[i].PRAZO_DU

VizinhoAcima(i, alvo) ==
    /\ df_dia[i].PRAZO_DU > alvo
    /\ \A k \in DOMAIN df_dia : df_dia[k].PRAZO_DU > alvo => df_dia[k].PRAZO_DU >= df_dia[i].PRAZO_DU

AlvoObservado(alvo) == \E k \in DOMAIN df_dia : df_dia[k].PRAZO_DU = alvo

AlvoForaDaCurva(alvo) ==
    /\ df_dia # <<>>
    /\ \/ \A k \in DOMAIN df_dia : df_dia[k].PRAZO_DU > alvo
       \/ \A k \in DOMAIN df_dia : df_dia[k].PRAZO_DU < alvo

\* C1: when the target round(anos*252) is the tenor of an observed row, the
\* interpolator returns that row's rate for either series, untouched by the
\* neighbouring rows (a missing rate stays missing).
C1_ExatoDevolveATaxaDaLinha ==
    linha.op # "nenhuma" =>
        LET alvo == alvo_du_de(anos) IN
        \A i \in DOMAIN df_dia :
            df_dia[i].PRAZO_DU = alvo =>
                \A col \in Colunas :
                    IF notnull(df_dia[i][col])
                    THEN Resultado(col) = df_dia[i][col]
                    ELSE ~notnull(Resultado(col))

\* an exact hit in the middle of a three-row snapshot whose neighbours hold another rate
C1_Witness ==
    /\ linha.op = "hoje"
    /\ LET alvo == alvo_du_de(anos) IN
       \E i, b, a \in DOMAIN df_dia :
          /\ df_dia[i].PRAZO_DU = alvo
          /\ VizinhoAbaixo(b, alvo) /\ VizinhoAcima(a, alvo)
          /\ notnull(df_dia[i].TAXA_PREF)
          /\ notnull(df_dia[b].TAXA_PREF) /\ df_dia[b].TAXA_PREF # df_dia[i].TAXA_PREF
          /\ df_dia[a].TAXA_PREF = df_dia[b].TAXA_PREF
          /\ linha.nominal = df_dia[i].TAXA_PREF

\* C2: when the target is not observed and has observations on both sides, the
\* result is rate_before + (rate_after - rate_before) * (target - bd_before) /
\* (bd_after - bd_before) over the closest observation on each side.
C2_InterpolacaoLinear ==
    linha.op # "nenhuma" =>
        LET alvo == alvo_du_de(anos) IN
        \/ AlvoObservado(alvo)
        \/ \A b \in DOMAIN df_dia : VizinhoAbaixo(b, alvo) =>
             \A a \in DOMAIN df_dia : VizinhoAcima(a, alvo) =>
               \A col \in Colunas :
                LET y0 == df_dia[b][col]
                    y1 == df_dia[a][col]
                    x0 == df_dia[b].PRAZO_DU
                    x1 == df_dia[a].PRAZO_DU
                IN  IF notnull(y0) /\ notnull(y1)
                    THEN Resultado(col) =
                           Num(y0.n * y1.d * (x1 - x0) + (y1.n * y0.d - y0.n * y1.d) * (alvo - x0),
                               y0.d * y1.d * (x1 - x0))
                    ELSE ~notnull(Resultado(col))

\* the example of the specification: 504 -> 11.00, 756 -> 11.60, 2.5 years -> 11.30,
\* with a farther observation above that must not be used
C2_Witness ==
    /\ linha.op = "hoje"
    /\ anos = Num(5, 2)
    /\ alvo_du_de(anos) = 630
    /\ Len(df_dia) = 3
    /\ \E b, a \in DOMAIN df_dia :
          /\ df_dia[b].PRAZO_DU = 504 /\ df_dia[b].TAXA_PREF = Num(1100, 100)
          /\ df_dia[a].PRAZO_DU = 756 /\ df_dia[a].TAXA_PREF = Num(1160, 100)
    /\ \E c \in DOMAIN df_dia : df_dia[c].PRAZO_DU = 1008 /\ df_dia[c].TAXA_PREF = Num(1100, 100)
    /\ linha.nominal = Num(1130, 100)

\* C3: for a target strictly between two observed tenors whose rates are
\* present, the result lies in [min(rate_before, rate_after), max(...)].
C3_EntreAsTaxasVizinhas ==
    linha.op # "nenhuma" =>
        LET alvo == alvo_du_de(anos) IN
        \/ AlvoObservado(alvo)
        \/ \A b \in DOMAIN df_dia : VizinhoAbaixo(b, alvo) =>
             \A a \in DOMAIN df_dia : VizinhoAcima(a, alvo) =>
               \A col \in Colunas :
                (notnull(df_dia[b][col]) /\ notnull(df_dia[a][col])) =>
                    LET y0 == df_dia[b][col]
                        y1 == df_dia[a][col]
                        lo == IF FLe(y0, y1) THEN y0 ELSE y1
                        hi == IF FLe(y0, y1) THEN y1 ELSE y0
                    IN  FLe(lo, Resultado(col)) /\ FLe(Resultado(col), hi)

\* a target between two different rates, with a third observation beyond the bracket
C3_Witness ==
    /\ linha.op # "nenhuma"
    /\ Len(df_dia) = 3
    /\ LET alvo == alvo_du_de(anos) IN
       /\ ~AlvoObservado(alvo)
       /\ \E b, a \in DOMAIN df_dia :
          /\ VizinhoAbaixo(b, alvo) /\ VizinhoAcima(a, alvo)
          /\ FLt(df_dia[a].TAXA_PREF, df_dia[b].TAXA_PREF)
          /\ FLt(df_dia[a].TAXA_PREF, linha.nominal)
          /\ FLt(linha.nominal, df_dia[b].TAXA_PREF)

\* C4: for a target below the smallest or above the largest observed tenor the
\* result is the rate of the observation minimising |PRAZO_DU - target| (the end
\* point of the curve); a missing end-point rate gives no value.
C4_ForaDaCurvaUsaOExtremo ==
    linha.op # "nenhuma" =>
        LET alvo == alvo_du_de(anos) IN
        AlvoForaDaCurva(alvo) =>
            \A e \in DOMAIN df_dia :
                (\A k \in DOMAIN df_dia :
                    Abs(df_dia[e].PRAZO_DU - alvo) <= Abs(df_dia[k].PRAZO_DU - alvo)) =>
                \A col \in Colunas :
                    IF notnull(df_dia[e][col])
                    THEN Resultado(col) = df_dia[e][col]
                    ELSE ~notnull(Resultado(col))

\* a target beyond a curve whose last two rates differ: the last one is returned
C4_Witness ==
    /\ linha.op # "nenhuma"
    /\ Len(df_dia) >= 2
    /\ LET alvo == alvo_du_de(anos) IN
       /\ \A k \in DOMAIN df_dia : df_dia[k].PRAZO_DU < alvo
       /\ \E e, f \in DOMAIN df_dia :
          /\ \A k \in DOMAIN df_dia : df_dia[k].PRAZO_DU <= df_dia[e].PRAZO_DU
          /\ notnull(df_dia[e].TAXA_PREF) /\ notnull(df_dia[f].TAXA_PREF)
          /\ df_dia[f].TAXA_PREF # df_dia[e].TAXA_PREF
          /\ linha.nominal = df_dia[e].TAXA_PREF

\* C5: in a derived vertex breakeven is null whenever the nominal or the real
\* rate is missing, and otherwise breakeven + real = nominal.
C5_Breakeven ==
    linha.op # "nenhuma" =>
        IF notnull(linha.nominal) /\ notnull(linha.real)
        THEN notnull(linha.breakeven) /\ FAdd(linha.breakeven, linha.real) = linha.nominal
        ELSE ~notnull(linha.breakeven)

\* a vertex with a nominal rate and no real rate, hence without breakeven
C5_WitnessNulo ==
    /\ linha.op = "hoje"
    /\ notnull(linha.nominal)
    /\ linha.real = None
    /\ linha.breakeven = None

-----------------------------------------------------------------------------
(* Properties of the history file and of the curve tables, under Spec.     *)

DatasDoHistorico == {hist[i].data_curva : i \in DOMAIN hist}

\* the greatest curve date of the history that is not later than dt, as a set
UltimaDataAte(dt) ==
    {d \in DatasDoHistorico : d <= dt /\ \A e \in DatasDoHistorico : e <= dt => e <= d}

\* C6 as claimed: the table of montar_curva_anbima_hoje is dated with the greatest
\* curve date of the history that is not later than the day of the call, and
\* never with a date after that day.
C6_NuncaDepoisDeHoje ==
    (chamada.op = "hoje" /\ chamada.saida # <<>>) =>
        \A i \in DOMAIN chamada.saida :
            /\ chamada.saida[i].Data_da_curva <= chamada.quando
            /\ chamada.saida[i].Data_da_curva \in UltimaDataAte(chamada.quando)

\* C6 as amended: the table of montar_curva_anbima_hoje is built from the
\* snapshot of the greatest curve date of the history, whatever the day of the
\* call: every row carries that date and the rates of that snapshot.
C6_UsaAMaiorDataDoHistorico ==
    (chamada.op = "hoje" /\ hist # <<>>) =>
        /\ Len(chamada.saida) = Len(vertices)
        /\ \A i \in DOMAIN chamada.saida :
            LET l == chamada.saida[i]
                d == l.Data_da_curva
                v == vertice_do_dia(do_dia(hist, d), Int2F(vertices[i]))
            IN  /\ d \in DatasDoHistorico
                /\ \A e \in DatasDoHistorico : e <= d
                /\ l.Vertice_anos = vertices[i]
                /\ l.Juro_Nominal = v.nominal /\ l.Juro_Real = v.real

\* the history holds a curve dated after the day of the call, and an older one,
\* and the table is dated with the future one
C6_Witness ==
    /\ chamada.op = "hoje"
    /\ chamada.saida # <<>>
    /\ chamada.saida[1].Data_da_curva > chamada.quando
    /\ \E e \in DatasDoHistorico : e <= chamada.quando

C8_ChaveUnicaUltimaEscritaVence ==
    /\ \A i, j \in DOMAIN hist : Chave(hist[i]) = Chave(hist[j]) => i = j
    /\ chamada.op = "atualizar" =>
         \A k \in DOMAIN chamada.df_curva : \E i \in DOMAIN hist : hist[i] = chamada.df_curva[k]

\* a key already on file is written again with another rate: one row, the new rate
C8_Witness ==
    /\ chamada.op = "atualizar"
    /\ \E k \in DOMAIN chamada.df_curva : \E o \in DOMAIN chamada.hist_antes :
          /\ Chave(chamada.hist_antes[o]) = Chave(chamada.df_curva[k])
          /\ chamada.hist_antes[o].TAXA_PREF # chamada.df_curva[k].TAXA_PREF
          /\ Cardinality({i \in DOMAIN hist : Chave(hist[i]) = Chave(chamada.df_curva[k])}) = 1
          /\ \E i \in DOMAIN hist : hist[i] = chamada.df_curva[k]

\* C9: an update neither removes nor alters a row whose (data_curva, PRAZO_DU)
\* is not in the downloaded batch, and an update whose download is empty leaves
\* the file as it was.
C9_SoAcrescenta ==
    chamada.op = "atualizar" =>
        /\ \A o \in DOMAIN chamada.hist_antes :
              (\A k \in DOMAIN chamada.df_curva : Chave(chamada.df_curva[k]) # Chave(chamada.hist_antes[o]))
                  => \E i \in DOMAIN hist : hist[i] = chamada.hist_antes[o]
        /\ chamada.df_curva = <<>> => hist = chamada.hist_antes

\* an update adds a batch of another curve date to a file that keeps its old rows
C9_Witness ==
    /\ chamada.op = "atualizar"
    /\ chamada.hist_antes # <<>>
    /\ chamada.df_curva # <<>>
    /\ \A o \in DOMAIN chamada.hist_antes : \A k \in DOMAIN chamada.df_curva :
          Chave(chamada.df_curva[k]) # Chave(chamada.hist_antes[o])
    /\ Len(hist) = Len(chamada.hist_antes) + Len(chamada.df_curva)
    /\ \A o \in DOMAIN chamada.hist_antes : hist[o] = chamada.hist_antes[o]

\* the row of montar_curva_anbima_variacoes with label rotulos[k] holds the vertex
\* of the snapshot dated d
LinhaDoSnapshot(k, d) ==
    LET l == chamada.saida[k]
        v == vertice_do_dia(do_dia(hist, d), Int2F(chamada.anos))
    IN  /\ l.Data = rotulos[k]
        /\ l.Juro_Nominal = v.nominal
        /\ l.Juro_Real = v.real
        /\ l.Breakeven = v.breakeven

UltimaDataDoHistorico == CHOOSE d \in DatasDoHistorico : \A e \in DatasDoHistorico : e <= d

C20_AnoEAPrimeiraCurvaDoAno ==
    (chamada.op = "variacoes" /\ hist # <<>>) =>
        LET jan1  == date(year(UltimaDataDoHistorico), 1, 1)
            doAno == {d \in DatasDoHistorico : d >= jan1}
        IN  \A d \in doAno : (\A e \in doAno : d <= e) => LinhaDoSnapshot(5, d)

\* curves of 30 December 2024 and of January 2025 on file: the "Ano" row shows the
\* curve of 30 December, the last one of the year before
C20_Witness ==
    /\ chamada.op = "variacoes"
    /\ hist # <<>>
    /\ year(UltimaDataDoHistorico) = 2025
    /\ date(2024, 12, 30) \in DatasDoHistorico
    /\ LinhaDoSnapshot(5, date(2024, 12, 30))
    /\ notnull(chamada.saida[5].Juro_Nominal)
    /\ chamada.saida[5].Juro_Nominal # chamada.saida[1].Juro_Nominal

-----------------------------------------------------------------------------
(* tesouro_direto: the bond-quote loader.                                  *)
(* A raw row is [data_base, nome_titulo, data_vencimento, taxa_compra];    *)
(* a name is a sequence of characters.                                     *)

\* pd.to_datetime(errors="coerce") of an unreadable date
NaT == 0 - 1

\* a missing name (NaN in the name column)
NomeNA == <<"<NA>">>

\* str.lower() on the characters that occur in bond names
lower(c) ==
    CASE c = "A" -> "a" [] c = "C" -> "c" [] c = "D" -> "d" [] c = "E" -> "e"
      [] c = "F" -> "f" [] c = "I" -> "i" [] c = "L" -> "l" [] c = "O" -> "o"
      [] c = "P" -> "p" [] c = "R" -> "r" [] c = "S" -> "s" [] c = "X" -> "x"
      [] OTHER -> c

\* Series.str.contains(pat, case=False, na=False) for one cell
str_contains(nome, pat) ==
    /\ nome # NomeNA
    /\ \E i \in 1..(Len(nome) - Len(pat) + 1) :
          \A j \in 1..Len(pat) : lower(nome[i + j - 1]) = lower(pat[j])

\* the outcome of requests.get(TESOURO_CSV_URL) + read_csv: a table, or an exception
BaixouTesouro(df) == [ok |-> TRUE, df |-> df]
FalhaHTTP == [ok |-> FALSE, df |-> <<>>]

\* carregar_tesouro_bruto(): result and the cache/file it leaves behind
carregar_tesouro_bruto(cache, arquivo, baixado) ==
    IF cache.cheio
    THEN [erro |-> "", df |-> cache.df, cache |-> cache, arquivo |-> arquivo]
    ELSE IF arquivo # <<>>
    THEN [erro |-> "", df |-> arquivo, cache |-> [cheio |-> TRUE, df |-> arquivo], arquivo |-> arquivo]
    ELSE IF ~baixado.ok
    THEN [erro |-> "HTTPError", df |-> <<>>, cache |-> cache, arquivo |-> arquivo]
    ELSE [erro |-> "", df |-> baixado.df, cache |-> [cheio |-> TRUE, df |-> baixado.df],
          arquivo |-> baixado.df]

\* (data_vencimento - hoje_ts).dt.days / 365.25
prazo_anos_de(data_vencimento, hoje_ts) ==
    IF data_vencimento = NaT THEN NaN ELSE Num(4 * (data_vencimento - hoje_ts), 1461)

\* sort_values("prazo_anos"): ascending, missing values last
RECURSIVE InsertPorPrazoAnos(_, _)
InsertPorPrazoAnos(r, s) ==
    IF s = <<>> THEN <<r>>
    ELSE IF notnull(r.prazo_anos) /\ (~notnull(Head(s).prazo_anos) \/ FLt(r.prazo_anos, Head(s).prazo_anos))
    THEN <<r>> \o s
    ELSE <<Head(s)>> \o InsertPorPrazoAnos(r, Tail(s))

RECURSIVE SortPorPrazoAnos(_)
SortPorPrazoAnos(df) ==
    IF df = <<>> THEN <<>>
    ELSE InsertPorPrazoAnos(df[Len(df)], SortPorPrazoAnos(SubSeq(df, 1, Len(df) - 1)))

\* carregar_tesouro_ultimo_dia() on the raw table `bruto`, run on day hoje_ts
carregar_tesouro_ultimo_dia(bruto, hoje_ts) ==
    IF bruto = <<>> THEN <<>>
    ELSE LET data_mais_recente ==
                 CHOOSE m \in {bruto[i].data_base : i \in DOMAIN bruto} :
                     \A i \in DOMAIN bruto : bruto[i].data_base <= m
             NoUltimoDia(r) == r.data_base = data_mais_recente
             df_ultimo == SelectSeq(bruto, NoUltimoDia)
         IN  SortPorPrazoAnos(
                 [i \in DOMAIN df_ultimo |->
                    [data_base       |-> df_ultimo[i].data_base,
                     nome_titulo     |-> df_ultimo[i].nome_titulo,
                     data_vencimento |-> df_ultimo[i].data_vencimento,
                     prazo_anos      |-> prazo_anos_de(df_ultimo[i].data_vencimento, hoje_ts),
                     taxa_compra     |-> df_ultimo[i].taxa_compra]])

-----------------------------------------------------------------------------
(* analise_tesouro_vs_curva: the two comparators.                          *)

\* slip: direction="backward", the default of merge_asof
vertice_mais_proximo_backward(x, direita) ==
    LET B == {j \in DOMAIN direita : FLe(direita[j].prazo_anos_curva, x)}
    IN  IF B = {} THEN 0 ELSE CHOOSE j \in B : \A k \in B : k <= j

\* merge_asof(direction="nearest"): the index in the sorted right frame matched
\* to the left key x, 0 when the right frame is empty; a tie goes backward
vertice_mais_proximo(x, direita) ==
    LET B  == {j \in DOMAIN direita : FLe(direita[j].prazo_anos_curva, x)}
        F  == {j \in DOMAIN direita : FGe(direita[j].prazo_anos_curva, x)}
        bj == CHOOSE j \in B : \A k \in B : k <= j
        fj == CHOOSE j \in F : \A k \in F : k >= j
    IN  IF B # {} /\ F # {}
        THEN (IF FLe(FSub(x, direita[bj].prazo_anos_curva), FSub(direita[fj].prazo_anos_curva, x))
              THEN bj ELSE fj)
        ELSE IF B # {} THEN bj
        ELSE IF F # {} THEN fj
        ELSE 0

\* pd.merge_asof(esquerda, direita, left_on="prazo_anos", right_on="prazo_anos_curva",
\*               direction="nearest"); coluna is the rate column of the right frame
merge_asof(esquerda, direita, coluna) ==
    [i \in DOMAIN esquerda |->
        LET j == vertice_mais_proximo(esquerda[i].prazo_anos, direita)
        IN  esquerda[i] @@
            ("prazo_anos_curva" :> (IF j = 0 THEN NaN ELSE direita[j].prazo_anos_curva)) @@
            (coluna :> (IF j = 0 THEN NaN ELSE direita[j].taxa))]

\* sort_values("spread_bps", ascending=False): descending, missing values last
RECURSIVE InsertPorSpread(_, _)
InsertPorSpread(r, s) ==
    IF s = <<>> THEN <<r>>
    ELSE IF notnull(r.spread_bps) /\ (~notnull(Head(s).spread_bps) \/ FGt(r.spread_bps, Head(s).spread_bps))
    THEN <<r>> \o s
    ELSE <<Head(s)>> \o InsertPorSpread(r, Tail(s))

RECURSIVE SortPorSpread(_)
SortPorSpread(df) ==
    IF df = <<>> THEN <<>>
    ELSE InsertPorSpread(df[Len(df)], SortPorSpread(SubSeq(df, 1, Len(df) - 1)))

\* slip: the rows left in the order of the merge (by maturity)
mais_baratos_primeiro_sem_ordenar(df_cmp) == df_cmp

\* df_cmp.sort_values("spread_bps", ascending=False)
mais_baratos_primeiro(df_cmp) == SortPorSpread(df_cmp)

Prefixado == <<"P", "r", "e", "f", "i", "x", "a", "d", "o">>
IPCA == <<"I", "P", "C", "A">>

\* the right frame of the merge: vertex and rate of the curve table, sorted by vertex
curva_por_vertice(curva, juro) ==
    [i \in DOMAIN curva |-> [prazo_anos_curva |-> Int2F(curva[i].Vertice_anos), taxa |-> curva[i][juro]]]

\* df_tesouro[df_tesouro["taxa_compra"].notna()].sort_values("prazo_anos"), then
\* dropna(subset=["prazo_anos"])
tesouro_valido(df_tesouro) ==
    LET TemTaxa(r)  == notnull(r.taxa_compra)
        TemPrazo(r) == notnull(r.prazo_anos)
    IN  SelectSeq(SortPorPrazoAnos(SelectSeq(df_tesouro, TemTaxa)), TemPrazo)

\* slip: the spread left in percentage points
com_spread_em_pontos(df_cmp, coluna) ==
    [i \in DOMAIN df_cmp |->
        LET spread_bps == FSub(df_cmp[i].taxa_compra, df_cmp[i][coluna])
        IN  df_cmp[i] @@ [spread_bps |-> spread_bps, Sinal |-> classificar_spread(spread_bps, Int2F(LIMIAR_BPS))]]

\* spread, spread_bps and Sinal of the merged rows
com_spread(df_cmp, coluna) ==
    [i \in DOMAIN df_cmp |->
        LET spread_bps == FMul(FSub(df_cmp[i].taxa_compra, df_cmp[i][coluna]), Int2F(100))
        IN  df_cmp[i] @@ [spread_bps |-> spread_bps, Sinal |-> classificar_spread(spread_bps, Int2F(LIMIAR_BPS))]]

\* slip: no family filter
filtrar_familia_todos(df, pat) == df

\* df[df["nome_titulo"].str.contains(pat, case=False, na=False)]
filtrar_familia(df, pat) ==
    LET DaFamilia(r) == str_contains(r.nome_titulo, pat)
    IN  SelectSeq(df, DaFamilia)

\* the rate at or below which a quote is discarded
PISO_TAXA == 1

\* slip: the floor itself let through
filtrar_lixo_inclusive(df_cmp) ==
    LET TaxaAlta(r) == FGe(r.taxa_compra, Int2F(PISO_TAXA))
    IN  SelectSeq(df_cmp, TaxaAlta)

\* df_cmp[df_cmp["taxa_compra"] > 1]
filtrar_lixo(df_cmp) ==
    LET TaxaAlta(r) == FGt(r.taxa_compra, Int2F(PISO_TAXA))
    IN  SelectSeq(df_cmp, TaxaAlta)

\* the column names of the table montar_curva_anbima_hoje builds (accents dropped)
colunas_da_curva ==
    {"Data da curva", "Vertice (anos)", "Juro Nominal (%)", "Juro Real (%)", "Breakeven (%)"}

\* an optional date: None, or a date
SemData == [tem |-> FALSE, data |-> 0]
ComData(d) == [tem |-> TRUE, data |-> d]

\* data_curva = None; if "data_curva" in curva.columns: data_curva = curva["data_curva"].max()
data_curva_de(curva) ==
    IF "data_curva" \in colunas_da_curva
    THEN ComData(CHOOSE m \in {curva[i].Data_da_curva : i \in DOMAIN curva} :
                     \A i \in DOMAIN curva : curva[i].Data_da_curva <= m)
    ELSE SemData

\* the date columns added when their value is not None, then the columns of
\* colunas_saida that exist
colunas_de_saida(df, coluna, data_tesouro, data_curva) ==
    [i \in DOMAIN df |->
        LET linha_saida ==
                (coluna :> df[i][coluna]) @@
                [nome_titulo       |-> df[i].nome_titulo,
                 data_vencimento   |-> df[i].data_vencimento,
                 prazo_anos        |-> df[i].prazo_anos,
                 taxa_compra       |-> df[i].taxa_compra,
                 spread_bps        |-> df[i].spread_bps,
                 Sinal             |-> df[i].Sinal,
                 data_base_tesouro |-> data_tesouro]
        IN  IF data_curva.tem
            THEN linha_saida @@ [data_curva_anbima |-> data_curva.data]
            ELSE linha_saida]

\* pd.to_datetime(df_tesouro["data_base"]).max()
data_tesouro_de(df_tesouro) ==
    CHOOSE m \in {df_tesouro[i].data_base : i \in DOMAIN df_tesouro} :
        \A i \in DOMAIN df_tesouro : df_tesouro[i].data_base <= m

\* comparar_tesouro_pre_vs_curva() given the two tables it loads
comparar_tesouro_pre_vs_curva(df_tesouro, curva) ==
    IF curva = <<>> \/ df_tesouro = <<>>
    THEN [erro |-> "KeyError", df_cmp |-> <<>>, saida |-> <<>>]
    ELSE LET df_pre_anbima == curva_por_vertice(curva, "Juro_Nominal")
             df_cmp_pre    == merge_asof(tesouro_valido(df_tesouro), df_pre_anbima, "taxa_pre_anbima")
             filtrado      == filtrar_familia(filtrar_lixo(com_spread(df_cmp_pre, "taxa_pre_anbima")),
                                            Prefixado)
         IN  [erro |-> "", df_cmp |-> df_cmp_pre,
              saida |-> colunas_de_saida(mais_baratos_primeiro(filtrado), "taxa_pre_anbima",
                                         data_tesouro_de(df_tesouro), data_curva_de(curva))]

\* comparar_tesouro_ipca_vs_curva() given the two tables it loads
comparar_tesouro_ipca_vs_curva(df_tesouro, curva) ==
    IF curva = <<>> \/ df_tesouro = <<>>
    THEN [erro |-> "KeyError", df_cmp |-> <<>>, saida |-> <<>>]
    ELSE LET df_ipca_anbima == curva_por_vertice(curva, "Juro_Real")
             TemPrazo(r)    == notnull(r.prazo_anos)
             TemTaxa(r)     == notnull(r.taxa_compra)
             valido         == SelectSeq(filtrar_familia(SortPorPrazoAnos(SelectSeq(df_tesouro, TemTaxa)),
                                                         IPCA),
                                         TemPrazo)
             df_cmp_ipca    == merge_asof(valido, df_ipca_anbima, "taxa_ipca_anbima")
             filtrado       == filtrar_lixo(com_spread(df_cmp_ipca, "taxa_ipca_anbima"))
         IN  [erro |-> "", df_cmp |-> df_cmp_ipca,
              saida |-> colunas_de_saida(mais_baratos_primeiro(filtrado), "taxa_ipca_anbima",
                                         data_tesouro_de(df_tesouro), data_curva_de(curva))]

-----------------------------------------------------------------------------
(* SpecCmp: the comparators called on a stored curve history and a bond    *)
(* table that is cached, on file, or downloaded.                           *)

LinhaTesouro(data_base, nome_titulo, data_vencimento, taxa_compra) ==
    [data_base |-> data_base, nome_titulo |-> nome_titulo,
     data_vencimento |-> data_vencimento, taxa_compra |-> taxa_compra]

DataBaseTesouro == date(2024, 12, 30)

\* rows a Tesouro Transparente file may hold
TitulosPublicaveis ==
    { LinhaTesouro(DataBaseTesouro, <<"P", "r", "e", "f", "i", "x", "a", "d", "o", " ", "2", "7">>,
                   date(2027, 1, 1), Num(1150, 100)),
      LinhaTesouro(DataBaseTesouro, <<"P", "R", "E", "F", "I", "X", "A", "D", "O", " ", "3", "6">>,
                   date(2036, 1, 1), Num(1220, 100)),
      LinhaTesouro(DataBaseTesouro, <<"P", "r", "e", "f", "i", "x", "a", "d", "o", " ", "2", "5">>,
                   date(2025, 1, 1), Num(1, 1)),
      LinhaTesouro(DataBaseTesouro, <<"I", "P", "C", "A", "+", " ", "2", "9">>,
                   date(2029, 5, 15), Num(620, 100)),
      LinhaTesouro(DataBaseTesouro, <<"I", "P", "C", "A", "+", " ", "3", "5">>,
                   date(2035, 5, 15), Num(650, 100)),
      LinhaTesouro(DataBaseTesouro, <<"i", "p", "c", "a", "+", " ", "6", "0">>,
                   date(2060, 8, 15), Num(50, 100)),
      LinhaTesouro(DataBaseTesouro, <<"S", "e", "l", "i", "c", " ", "2", "7">>,
                   date(2027, 3, 1), NaN),
      LinhaTesouro(DataBaseTesouro, NomeNA, NaT, Num(12, 1)),
      LinhaTesouro(DataBaseTesouro, NomeNA, date(2031, 1, 1), Num(1250, 100)),
      LinhaTesouro(date(2024, 12, 27), <<"P", "r", "e", "f", "i", "x", "a", "d", "o", " ", "2", "7">>,
                   date(2027, 1, 1), Num(11, 1)) }

\* rows in one bond table, at most
MaxTitulos == 2

\* tables of n distinct rows, in any file order
RECURSIVE TabelasDe(_)
TabelasDe(n) ==
    IF n = 0 THEN {<<>>}
    ELSE {Append(t, r) : <<t, r>> \in
            {<<t, r>> \in TabelasDe(n - 1) \X TitulosPublicaveis :
                \A i \in DOMAIN t : t[i] # r}}

TabelasTesouro == UNION {TabelasDe(n) : n \in 0..MaxTitulos}

\* what the download may answer: an HTTP error, a header without rows, or one row
RespostasTesouro == {FalhaHTTP} \cup {BaixouTesouro(t) : t \in TabelasDe(0) \cup TabelasDe(1)}

\* the history file: absent, or left by one update that stored today's whole curve
HistoricosCmp ==
    {<<>>} \cup
    {_append_historico_full(<<>>, com_data_ref(b, DiaInicial)) :
        b \in {c \in _baixar_curva_zero_ultima(DiaInicial) :
                  /\ Len(c) = Len(PrazosPublicaveis)
                  /\ c[1].data_curva = DiaInicial}}

InitCmp ==
    /\ hist \in HistoricosCmp
    /\ relogio = DiaInicial
    /\ atualizacoes = 0
    /\ chamada = SemChamada
    /\ td_file \in TabelasTesouro
    /\ td_cache = CacheVazio
    /\ td_dia = SemDia
    /\ df_dia = <<>>
    /\ anos = Int2F(1)
    /\ linha = NaoCalculada
    /\ spread = NaN
    /\ limiar = Int2F(LIMIAR_BPS)
    /\ sinal = SemSinal
    /\ di_file = <<>>
    /\ rq = SemPedido
    /\ lote = LoteParado
    /\ wr = SemEscritores

\* one comparator call: carregar_tesouro_ultimo_dia(), montar_curva_anbima_hoje(),
\* then the comparison
Comparar(op, baixado) ==
    LET bruto == carregar_tesouro_bruto(td_cache, td_file, baixado)
    IN  /\ td_cache' = bruto.cache
        /\ td_file' = bruto.arquivo
        /\ td_dia' = IF bruto.cache.cheio /\ ~td_cache.cheio THEN relogio ELSE td_dia
        /\ IF bruto.erro # ""
           THEN chamada' = [SemChamada EXCEPT !.op = op, !.quando = relogio, !.erro = bruto.erro]
           ELSE LET df_tesouro == carregar_tesouro_ultimo_dia(bruto.df, relogio)
                    curva      == montar_curva_anbima_hoje(hist)
                    r == IF op = "cmp_pre" THEN comparar_tesouro_pre_vs_curva(df_tesouro, curva)
                         ELSE comparar_tesouro_ipca_vs_curva(df_tesouro, curva)
                IN  chamada' = [SemChamada EXCEPT !.op = op, !.quando = relogio,
                                                 !.erro = r.erro, !.df_tesouro = df_tesouro,
                                                 !.df_cmp = r.df_cmp, !.saida = r.saida]
        /\ UNCHANGED <<hist, relogio, atualizacoes>>
        /\ UNCHANGED varsInterp
        /\ UNCHANGED varsSinal
        /\ UNCHANGED varsOutros

\* the download is attempted only when neither the cache nor the file answers
RespostasPossiveis ==
    IF td_cache.cheio \/ td_file # <<>> THEN {FalhaHTTP} ELSE RespostasTesouro

CompararPre == \E baixado \in RespostasPossiveis : Comparar("cmp_pre", baixado)

CompararIpca == \E baixado \in RespostasPossiveis : Comparar("cmp_ipca", baixado)

NextCmp ==
    \/ CompararPre
    \/ CompararIpca
    \/ ViraODia

SpecCmp == InitCmp /\ [][NextCmp]_vars

-----------------------------------------------------------------------------
(* Properties of the comparators (SpecCmp)                                 *)

FAbs(x) == IF x.n < 0 THEN Num(0 - x.n, x.d) ELSE x

EscadaDeVertices == {Int2F(vertices[i]) : i \in DOMAIN vertices}

ChamadaDeComparador == chamada.op \in {"cmp_pre", "cmp_ipca"} /\ chamada.erro = ""

\* the bonds the comparator of the observed call has to pair
TituloValido(r) ==
    /\ notnull(r.taxa_compra)
    /\ notnull(r.prazo_anos)
    /\ chamada.op = "cmp_ipca" => str_contains(r.nome_titulo, IPCA)

\* C10: both comparators pair every bond (rate and maturity present) with exactly
\* one vertex of the 15-vertex ladder, and no ladder vertex is strictly closer to
\* the bond's remaining maturity than the one it is paired with.
C10_ParComOVerticeMaisProximo ==
    ChamadaDeComparador =>
        /\ Len(chamada.df_cmp) = Len(SelectSeq(chamada.df_tesouro, TituloValido))
        /\ \A i \in DOMAIN chamada.df_tesouro :
              TituloValido(chamada.df_tesouro[i]) =>
                Cardinality({j \in DOMAIN chamada.df_cmp :
                    /\ chamada.df_cmp[j].nome_titulo = chamada.df_tesouro[i].nome_titulo
                    /\ chamada.df_cmp[j].data_vencimento = chamada.df_tesouro[i].data_vencimento
                    /\ chamada.df_cmp[j].prazo_anos = chamada.df_tesouro[i].prazo_anos}) = 1
        /\ \A j \in DOMAIN chamada.df_cmp :
              LET r == chamada.df_cmp[j]
              IN  /\ r.prazo_anos_curva \in EscadaDeVertices
                  /\ \A v \in EscadaDeVertices :
                        FLe(FAbs(FSub(r.prazo_anos, r.prazo_anos_curva)),
                            FAbs(FSub(r.prazo_anos, v)))

\* a Prefixado call that pairs two bonds, one of them just under 11 years with
\* vertex 10 (the ladder has no 11) and one just under 2 years with vertex 2
C10_Witness ==
    /\ chamada.op = "cmp_pre"
    /\ chamada.erro = ""
    /\ Len(chamada.df_cmp) = 2
    /\ \E j \in DOMAIN chamada.df_cmp :
          /\ FGt(chamada.df_cmp[j].prazo_anos, Int2F(10))
          /\ chamada.df_cmp[j].prazo_anos_curva = Int2F(10)
    /\ \E j \in DOMAIN chamada.df_cmp :
          /\ FLt(chamada.df_cmp[j].prazo_anos, Int2F(2))
          /\ chamada.df_cmp[j].prazo_anos_curva = Int2F(2)

\* the column of the curve table and of the output that holds the matched rate
JuroDaChamada == IF chamada.op = "cmp_pre" THEN "Juro_Nominal" ELSE "Juro_Real"
ColunaDaChamada == IF chamada.op = "cmp_pre" THEN "taxa_pre_anbima" ELSE "taxa_ipca_anbima"

\* the vertex of row k of the curve table is one of the closest to prazo_anos
VerticeMaisProximoDe(curva, k, prazo_anos) ==
    \A v \in DOMAIN curva :
        FLe(FAbs(FSub(prazo_anos, Int2F(curva[k].Vertice_anos))),
            FAbs(FSub(prazo_anos, Int2F(curva[v].Vertice_anos))))

\* C11: in every row of the comparator output, spread_bps is (purchase rate minus
\* the rate of the matched vertex) times 100, the matched rate being the nominal
\* rate in the Prefixado comparison and the real rate in the IPCA comparison.
C11_SpreadEmBps ==
    ChamadaDeComparador =>
        LET curva == montar_curva_anbima_hoje(hist)
        IN  \A i \in DOMAIN chamada.saida :
              LET r == chamada.saida[i]
              IN  \E k \in DOMAIN curva :
                    /\ VerticeMaisProximoDe(curva, k, r.prazo_anos)
                    /\ r[ColunaDaChamada] = curva[k][JuroDaChamada]
                    /\ r.spread_bps = FMul(FSub(r.taxa_compra, curva[k][JuroDaChamada]), Int2F(100))

\* the example of the specification: 11.50 bought against 11.20 on the curve is 30 bps
C11_Witness ==
    /\ chamada.op = "cmp_pre"
    /\ chamada.erro = ""
    /\ \E i \in DOMAIN chamada.saida :
          /\ chamada.saida[i].taxa_compra = Num(1150, 100)
          /\ chamada.saida[i].taxa_pre_anbima = Num(1120, 100)
          /\ chamada.saida[i].spread_bps = Int2F(30)
          /\ chamada.saida[i].Sinal = "Barato"

\* the bond of row r of the loaded table is a row of the output
NaSaida(r) ==
    \E j \in DOMAIN chamada.saida :
        /\ chamada.saida[j].nome_titulo = r.nome_titulo
        /\ chamada.saida[j].data_vencimento = r.data_vencimento

\* C13: no bond whose purchase rate is missing or <= 1 appears in the output of
\* either comparator.
C13_SemTaxaBaixaNaSaida ==
    ChamadaDeComparador =>
        /\ \A j \in DOMAIN chamada.saida :
              /\ notnull(chamada.saida[j].taxa_compra)
              /\ FGt(chamada.saida[j].taxa_compra, Int2F(1))
        /\ \A i \in DOMAIN chamada.df_tesouro :
              LET r == chamada.df_tesouro[i]
              IN  (~notnull(r.taxa_compra) \/ FLe(r.taxa_compra, Int2F(1))) => ~NaSaida(r)

\* an IPCA call on a table with the 0.5 quote of the example and one good quote:
\* both are paired, only the good one is returned
C13_Witness ==
    /\ chamada.op = "cmp_ipca"
    /\ chamada.erro = ""
    /\ \E i \in DOMAIN chamada.df_cmp : chamada.df_cmp[i].taxa_compra = Num(50, 100)
    /\ Len(chamada.df_cmp) = 2
    /\ Len(chamada.saida) = 1

\* the name, lower-cased character by character, holds the lower-cased letters of
\* pat at consecutive positions
TemNoNome(nome, pat) ==
    \E i \in 1..Len(nome) :
        /\ i + Len(pat) - 1 <= Len(nome)
        /\ [j \in 1..Len(pat) |-> lower(nome[i + j - 1])] = [j \in 1..Len(pat) |-> lower(pat[j])]

\* C14: the Prefixado comparison outputs only bonds whose name contains
\* "Prefixado", the IPCA comparison only bonds whose name contains "IPCA", both
\* ignoring case; a bond without a name is in neither output.
C14_SoAFamiliaPedida ==
    ChamadaDeComparador =>
        \A j \in DOMAIN chamada.saida :
            /\ chamada.saida[j].nome_titulo # NomeNA
            /\ chamada.op = "cmp_pre" => TemNoNome(chamada.saida[j].nome_titulo, Prefixado)
            /\ chamada.op = "cmp_ipca" => TemNoNome(chamada.saida[j].nome_titulo, IPCA)

\* a Prefixado call on a table with an upper-case PREFIXADO bond, which is returned,
\* and a nameless bond with rate and maturity, which is paired but not returned
C14_Witness ==
    /\ chamada.op = "cmp_pre"
    /\ chamada.erro = ""
    /\ \E i \in DOMAIN chamada.df_cmp : chamada.df_cmp[i].nome_titulo = NomeNA
    /\ \E j \in DOMAIN chamada.saida : chamada.saida[j].nome_titulo[2] = "R"

\* C15: the rows returned by either comparator are in non-increasing order of
\* spread_bps: of two consecutive rows with defined spreads the earlier one has
\* the greater or equal spread.
C15_MaisBaratosPrimeiro ==
    ChamadaDeComparador =>
        \A j \in 1..(Len(chamada.saida) - 1) :
            (notnull(chamada.saida[j].spread_bps) /\ notnull(chamada.saida[j + 1].spread_bps))
                => FGe(chamada.saida[j].spread_bps, chamada.saida[j + 1].spread_bps)

\* an IPCA call returning two bonds, the longer one first because it is cheaper
C15_Witness ==
    /\ chamada.op = "cmp_ipca"
    /\ chamada.erro = ""
    /\ Len(chamada.saida) = 2
    /\ FGt(chamada.saida[1].prazo_anos, chamada.saida[2].prazo_anos)
    /\ FGt(chamada.saida[1].spread_bps, chamada.saida[2].spread_bps)

\* C17 as claimed: when the curve history is missing, or the bond table is
\* missing or empty, either comparator returns an empty result and raises no
\* exception.
C17_VazioSemExcecao ==
    (chamada.op \in {"cmp_pre", "cmp_ipca"} /\ (hist = <<>> \/ chamada.df_tesouro = <<>>))
        => (chamada.erro = "" /\ chamada.saida = <<>>)

\* a Prefixado call with bond quotes on file and no curve history ends in KeyError
C17_Witness ==
    /\ chamada.op = "cmp_pre"
    /\ hist = <<>>
    /\ chamada.df_tesouro # <<>>
    /\ chamada.erro = "KeyError"

\* C18 as claimed: every non-empty result of either comparator has a column
\* data_curva_anbima holding the curve date of the snapshot used, and a column
\* data_base_tesouro holding the base date of the bond table.
C18_DatasDeReferencia ==
    (ChamadaDeComparador /\ chamada.saida # <<>>) =>
        \A j \in DOMAIN chamada.saida :
            /\ "data_base_tesouro" \in DOMAIN chamada.saida[j]
            /\ chamada.saida[j].data_base_tesouro = data_tesouro_de(chamada.df_tesouro)
            /\ "data_curva_anbima" \in DOMAIN chamada.saida[j]
            /\ chamada.saida[j].data_curva_anbima = max_data_curva(hist)

\* a non-empty Prefixado result: it is stamped with the bond table's base date
\* and has no data_curva_anbima column
C18_Witness ==
    /\ chamada.op = "cmp_pre"
    /\ chamada.erro = ""
    /\ chamada.saida # <<>>
    /\ \A j \in DOMAIN chamada.saida :
          /\ chamada.saida[j].data_base_tesouro = DataBaseTesouro
          /\ "data_curva_anbima" \notin DOMAIN chamada.saida[j]

-----------------------------------------------------------------------------
(* SpecSinal: classificar_spread called on a spread and a threshold.       *)

\* spreads in bps: missing, and values on, next to and away from the thresholds
SpreadsDados ==
    {NaN, None} \cup
    {Num(n, 2) : n \in {0 - 100, 0 - 81, 0 - 80, 0 - 79, 0 - 41, 0 - 40, 0 - 39, 0 - 21, 0 - 20,
                         0 - 19, 0 - 1, 0, 1, 19, 20, 21, 39, 40, 41, 79, 80, 81, 100}}

\* thresholds limiar_bps >= 0, the default among them
LimiaresDados == {Int2F(0), Int2F(10), Num(39, 2), Int2F(LIMIAR_BPS), Int2F(40)}

InitSinal ==
    /\ hist = <<>>
    /\ relogio = DiaInicial
    /\ atualizacoes = 0
    /\ chamada = SemChamada
    /\ td_file = <<>>
    /\ td_cache = CacheVazio
    /\ td_dia = SemDia
    /\ df_dia = <<>>
    /\ anos = Int2F(1)
    /\ linha = NaoCalculada
    /\ spread \in SpreadsDados
    /\ limiar \in LimiaresDados
    /\ sinal = SemSinal
    /\ di_file = <<>>
    /\ rq = SemPedido
    /\ lote = LoteParado
    /\ wr = SemEscritores

\* classificar_spread(spread, limiar)
ClassificarSpread ==
    /\ sinal = SemSinal
    /\ sinal' = classificar_spread(spread, limiar)
    /\ UNCHANGED <<spread, limiar>>
    /\ UNCHANGED varsCurva
    /\ UNCHANGED varsTesouro
    /\ UNCHANGED varsInterp
    /\ UNCHANGED varsOutros

\* spread_bps.apply(classificar_spread): the threshold is the default
ClassificarSpreadPadrao ==
    /\ sinal = SemSinal
    /\ limiar = Int2F(LIMIAR_BPS)
    /\ sinal' = classificar_spread(spread, Int2F(LIMIAR_BPS))
    /\ UNCHANGED <<spread, limiar>>
    /\ UNCHANGED varsCurva
    /\ UNCHANGED varsTesouro
    /\ UNCHANGED varsInterp
    /\ UNCHANGED varsOutros

NextSinal == ClassificarSpread \/ ClassificarSpreadPadrao

SpecSinal == InitSinal /\ [][NextSinal]_vars

MenosLimiar == FSub(Int2F(0), limiar)

\* the classes of a finite spread, as the claim states them
ClassesDoSpreadFinito ==
    /\ sinal \in {"Barato", "No preco", "Caro"}
    /\ FGe(spread, limiar) => sinal = "Barato"
    /\ FLe(spread, MenosLimiar) => sinal = "Caro"
    /\ (FLt(spread, limiar) /\ FGt(spread, MenosLimiar)) => sinal = "No preco"

\* C12 as claimed: for every threshold limiar >= 0, a finite spread >= +limiar is
\* Barato, a finite spread <= -limiar is Caro, a spread strictly between is
\* No preco, and an undefined spread is Sem dado.
C12_ParticaoLimiarNaoNegativo ==
    sinal # SemSinal =>
        IF IsNum(spread) THEN ClassesDoSpreadFinito ELSE sinal = "Sem dado"

\* C12 as amended: the partition holds for every threshold limiar > 0; with
\* limiar = 0 the test spread >= +limiar is made first, so a spread of 0 is
\* Barato and never Caro, and no spread is No preco.
C12_ParticaoLimiarPositivo ==
    sinal # SemSinal =>
        IF ~IsNum(spread) THEN sinal = "Sem dado"
        ELSE IF FGt(limiar, Int2F(0)) THEN ClassesDoSpreadFinito
        ELSE sinal = (IF FGe(spread, Int2F(0)) THEN "Barato" ELSE "Caro")

\* both closed boundaries of the default threshold have been classified
C12_Witness ==
    /\ limiar = Int2F(LIMIAR_BPS)
    /\ spread = Int2F(0 - LIMIAR_BPS)
    /\ sinal = "Caro"

-----------------------------------------------------------------------------
(* SpecSemDados: the curve tables asked for before any history file exists, *)
(* and the interpolator on snapshots where a series has no valid rate.      *)

SemTaxaValida(dia, col) == \A i \in DOMAIN dia : ~notnull(dia[i][col])

SnapshotsSemTaxa == {s \in Snapshots : \E col \in Colunas : SemTaxaValida(s, col)}

InitSemDados ==
    /\ hist = <<>>
    /\ relogio = DiaInicial
    /\ atualizacoes = 0
    /\ chamada = SemChamada
    /\ td_file = <<>>
    /\ td_cache = CacheVazio
    /\ td_dia = SemDia
    /\ df_dia \in SnapshotsSemTaxa
    /\ anos \in AnosPedidos
    /\ linha = NaoCalculada
    /\ spread = NaN
    /\ limiar = Int2F(LIMIAR_BPS)
    /\ sinal = SemSinal
    /\ di_file = <<>>
    /\ rq = SemPedido
    /\ lote = LoteParado
    /\ wr = SemEscritores

NextSemDados ==
    \/ MontarCurvaHoje
    \/ MontarCurvaVariacoes
    \/ MontarLinhaHoje
    \/ MontarLinhaVariacao

SpecSemDados == InitSemDados /\ [][NextSemDados]_vars

\* C16: with no history file, montar_curva_anbima_hoje and
\* montar_curva_anbima_variacoes return an empty table without raising; and for a
\* series with no valid rate the interpolator returns null, never zero.
C16_SemDadosENulo ==
    /\ (chamada.op \in {"hoje", "variacoes"} /\ hist = <<>>)
          => (chamada.saida = <<>> /\ chamada.erro = "")
    /\ linha.op # "nenhuma"
          => \A col \in Colunas :
                SemTaxaValida(df_dia, col) =>
                    (~notnull(Resultado(col)) /\ Resultado(col) # Int2F(0))

\* the variations table asked of an absent history, and a two-row snapshot whose
\* nominal rates are all missing while the real series is interpolated
C16_Witness ==
    /\ hist = <<>>
    /\ chamada.op = "variacoes"
    /\ chamada.saida = <<>>
    /\ linha.op = "hoje"
    /\ Len(df_dia) = 2
    /\ SemTaxaValida(df_dia, "TAXA_PREF")
    /\ linha.nominal = None
    /\ notnull(linha.real)

-----------------------------------------------------------------------------
(* SpecTesouro: the memoised loader of the bond file, the forced update    *)
(* of the application process and the update made by the batch process.    *)

\* atualizar_cache_tesouro_bruto() without the cache_clear()
atualizar_cache_tesouro_bruto_sem_limpar(cache, arquivo, baixado) ==
    IF ~baixado.ok
    THEN [erro |-> "HTTPError", df |-> <<>>, cache |-> cache, arquivo |-> arquivo]
    ELSE [erro |-> "", df |-> baixado.df, cache |-> cache, arquivo |-> baixado.df]

\* atualizar_cache_tesouro_bruto(): result and the cache/file it leaves behind
atualizar_cache_tesouro_bruto(cache, arquivo, baixado) ==
    IF ~baixado.ok
    THEN [erro |-> "HTTPError", df |-> <<>>, cache |-> cache, arquivo |-> arquivo]
    ELSE [erro |-> "", df |-> baixado.df, cache |-> CacheVazio, arquivo |-> baixado.df]

\* what the next call remembers of the call before it
Resumo(c) == [op |-> c.op, erro |-> c.erro, saida |-> c.saida, cache_antes |-> c.cache_antes]

InitTesouro ==
    /\ hist = <<>>
    /\ relogio = DiaInicial
    /\ atualizacoes = 0
    /\ chamada = SemChamada
    /\ td_file = <<>>
    /\ td_cache = CacheVazio
    /\ td_dia = SemDia
    /\ df_dia = <<>>
    /\ anos = Int2F(1)
    /\ linha = NaoCalculada
    /\ spread = NaN
    /\ limiar = Int2F(LIMIAR_BPS)
    /\ sinal = SemSinal
    /\ di_file = <<>>
    /\ rq = SemPedido
    /\ lote = LoteParado
    /\ wr = SemEscritores

\* carregar_tesouro_bruto() called in the application process
CarregarTesouroBruto ==
    /\ \E baixado \in RespostasPossiveis :
         LET r == carregar_tesouro_bruto(td_cache, td_file, baixado)
         IN  /\ td_cache' = r.cache
             /\ td_file' = r.arquivo
             /\ td_dia' = IF r.cache.cheio /\ ~td_cache.cheio THEN relogio ELSE td_dia
             /\ chamada' = [SemChamada EXCEPT !.op = "td_carregar", !.quando = relogio,
                                              !.erro = r.erro, !.saida = r.df,
                                              !.arquivo_antes = td_file,
                                              !.cache_antes = td_cache,
                                              !.dia_cache = td_dia,
                                              !.anterior = Resumo(chamada)]
    /\ UNCHANGED <<hist, relogio, atualizacoes>>
    /\ UNCHANGED varsInterp
    /\ UNCHANGED varsSinal
    /\ UNCHANGED varsOutros

\* atualizar_cache_tesouro_bruto() called in the application process
AtualizarCacheTesouroBruto ==
    /\ \E baixado \in RespostasTesouro :
         LET r == atualizar_cache_tesouro_bruto(td_cache, td_file, baixado)
         IN  /\ td_cache' = r.cache
             /\ td_file' = r.arquivo
             /\ td_dia' = IF r.cache.cheio THEN td_dia ELSE SemDia
             /\ chamada' = [SemChamada EXCEPT !.op = "td_atualizar", !.quando = relogio,
                                              !.erro = r.erro, !.saida = r.df,
                                              !.arquivo_antes = td_file,
                                              !.cache_antes = td_cache,
                                              !.dia_cache = td_dia,
                                              !.anterior = Resumo(chamada)]
    /\ UNCHANGED <<hist, relogio, atualizacoes>>
    /\ UNCHANGED varsInterp
    /\ UNCHANGED varsSinal
    /\ UNCHANGED varsOutros

\* step [5/5] of atualiza_dados_pesados.main, run by the scheduled batch process:
\* it rewrites the file and clears the lru_cache of its own process, so the
\* cache of the application process stays as it is
LoteAtualizaTesouro ==
    /\ \E baixado \in RespostasTesouro :
         LET r == atualizar_cache_tesouro_bruto(CacheVazio, td_file, baixado)
         IN  /\ td_file' = r.arquivo
             /\ chamada' = [SemChamada EXCEPT !.op = "td_lote", !.quando = relogio,
                                              !.erro = r.erro, !.saida = r.df,
                                              !.arquivo_antes = td_file,
                                              !.cache_antes = td_cache,
                                              !.dia_cache = td_dia,
                                              !.anterior = Resumo(chamada)]
    /\ UNCHANGED <<td_cache, td_dia>>
    /\ UNCHANGED <<hist, relogio, atualizacoes>>
    /\ UNCHANGED varsInterp
    /\ UNCHANGED varsSinal
    /\ UNCHANGED varsOutros

NextTesouro ==
    \/ CarregarTesouroBruto
    \/ AtualizarCacheTesouroBruto
    \/ LoteAtualizaTesouro
    \/ ViraODia

SpecTesouro == InitTesouro /\ [][NextTesouro]_vars

\* a load answered although the table had been memoised on an earlier day
CargaEmDiaPosterior ==
    /\ chamada.op = "td_carregar"
    /\ chamada.cache_antes.cheio
    /\ chamada.dia_cache # SemDia
    /\ chamada.dia_cache < chamada.quando

\* C21 as claimed: the cache of carregar_tesouro_bruto is keyed by calendar day:
\* a call made on a later day than the call that filled the cache re-reads its
\* source, so it returns the rows the file holds at the call and not the table
\* memoised on the earlier day.
C21_CacheValeSoNoDia ==
    (CargaEmDiaPosterior /\ chamada.arquivo_antes # <<>>) =>
        chamada.saida = chamada.arquivo_antes

\* the table was memoised on 2 January, the batch process rewrote the file, and
\* the load of 3 January still returns the table of the 2nd
C21_Witness ==
    /\ CargaEmDiaPosterior
    /\ chamada.arquivo_antes # <<>>
    /\ chamada.saida = chamada.cache_antes.df
    /\ chamada.saida # chamada.arquivo_antes
    /\ td_cache = chamada.cache_antes

\* the call before the most recent one was an update that completed
CargaAposAtualizacao ==
    /\ chamada.op = "td_carregar"
    /\ chamada.anterior.op = "td_atualizar"
    /\ chamada.anterior.erro = ""

\* C22 as claimed: the load that follows a completed atualizar_cache_tesouro_bruto
\* in the same process returns the table that update downloaded, never a table
\* memoised before the update.
C22_CargaDevolveOBaixado ==
    CargaAposAtualizacao =>
        /\ chamada.erro = ""
        /\ chamada.saida = chamada.anterior.saida

\* C22 as amended: when the update downloaded at least one row, the load that
\* follows it returns the downloaded table, read from the rewritten file, and
\* never the table memoised before the update; after an update that downloaded
\* a header without rows the load downloads again.
C22_CargaDevolveOBaixadoNaoVazio ==
    CargaAposAtualizacao =>
        /\ chamada.cache_antes = CacheVazio
        /\ chamada.arquivo_antes = chamada.anterior.saida
        /\ chamada.anterior.saida # <<>> =>
              /\ chamada.erro = ""
              /\ chamada.saida = chamada.anterior.saida
              /\ td_file = chamada.anterior.saida

\* a table was memoised, the update downloaded another one, and the load
\* returns the downloaded one
C22_Witness ==
    /\ CargaAposAtualizacao
    /\ chamada.anterior.cache_antes.cheio
    /\ chamada.anterior.cache_antes.df # <<>>
    /\ chamada.anterior.saida # <<>>
    /\ chamada.anterior.saida # chamada.anterior.cache_antes.df
    /\ chamada.saida = chamada.anterior.saida

-----------------------------------------------------------------------------
(* SpecDI: di_futuro_b3, the history of daily DI1 snapshots.               *)
(* A row is [data, ticker, taxa].                                          *)

\* contracts the B3 endpoint may list, in the order of the JSON
TickersDI == <<"DI1F26", "DI1F27">>

\* rates a contract may quote (curPrc, or the previous adjustment)
TaxasDI == {Num(1410, 100), Num(1425, 100)}

\* calls of atualizar_historico_di_futuro in one run of the model
MaxAtualizacoesDI == 3

\* baixar_snapshot_di_futuro(): an empty frame when the request fails or lists
\* nothing, else one row per listed contract dated with today
baixar_snapshot_di_futuro(hoje) ==
    {<<>>} \cup
    UNION { { [i \in 1..k |-> [data |-> hoje, ticker |-> TickersDI[i], taxa |-> f[i]]]
              : f \in [1..k -> TaxasDI] }
            : k \in 1..Len(TickersDI) }

ChaveDI(r) == <<r.data, r.ticker>>

\* df.drop_duplicates(subset=["data", "ticker"], keep="last")
drop_duplicates_di(df) ==
    LET Fica(i) == \A j \in (i + 1)..Len(df) : ChaveDI(df[j]) # ChaveDI(df[i])
        RECURSIVE Filtra(_)
        Filtra(i) == IF i > Len(df) THEN <<>>
                     ELSE (IF Fica(i) THEN <<df[i]>> ELSE <<>>) \o Filtra(i + 1)
    IN  Filtra(1)

\* atualizar_historico_di_futuro(): the frame returned and the file left behind
atualizar_historico_di_futuro(arquivo, df_novo) ==
    IF df_novo = <<>>
    THEN [df |-> arquivo, arquivo |-> arquivo]
    ELSE LET df_old == arquivo
             df     == drop_duplicates_di(df_old \o df_novo)
         IN  [df |-> df, arquivo |-> df]

InitDI ==
    /\ hist = <<>>
    /\ relogio = DiaInicial
    /\ atualizacoes = 0
    /\ chamada = SemChamada
    /\ td_file = <<>>
    /\ td_cache = CacheVazio
    /\ td_dia = SemDia
    /\ df_dia = <<>>
    /\ anos = Int2F(1)
    /\ linha = NaoCalculada
    /\ spread = NaN
    /\ limiar = Int2F(LIMIAR_BPS)
    /\ sinal = SemSinal
    /\ di_file = <<>>
    /\ rq = SemPedido
    /\ lote = LoteParado
    /\ wr = SemEscritores

AtualizarHistoricoDiFuturo ==
    /\ atualizacoes < MaxAtualizacoesDI
    /\ \E df_novo \in baixar_snapshot_di_futuro(relogio) :
         LET r == atualizar_historico_di_futuro(di_file, df_novo)
         IN  /\ di_file' = r.arquivo
             /\ chamada' = [SemChamada EXCEPT !.op = "di_atualizar", !.quando = relogio,
                                              !.hist_antes = di_file, !.df_novo = df_novo,
                                              !.saida = r.df]
    /\ atualizacoes' = atualizacoes + 1
    /\ UNCHANGED <<hist, relogio>>
    /\ UNCHANGED varsTesouro
    /\ UNCHANGED varsInterp
    /\ UNCHANGED varsSinal
    /\ UNCHANGED <<rq, lote, wr>>

NextDI ==
    \/ AtualizarHistoricoDiFuturo
    \/ ViraODia

SpecDI == InitDI /\ [][NextDI]_vars

\* an update made on a history that already held rows
AtualizouHistoricoDI == chamada.op = "di_atualizar" /\ chamada.hist_antes # <<>>

\* C23 as claimed: atualizar_historico_di_futuro adds only new dates to a non-empty
\* history: every row stored before for a (date, ticker) is in the file unchanged,
\* the file holds at most one row per (date, ticker), and with an empty B3
\* snapshot the file is not modified and the old history is returned.
C23_SoDatasNovas ==
    AtualizouHistoricoDI =>
        /\ \A o \in DOMAIN chamada.hist_antes :
              \E i \in DOMAIN di_file : di_file[i] = chamada.hist_antes[o]
        /\ \A i, j \in DOMAIN di_file : ChaveDI(di_file[i]) = ChaveDI(di_file[j]) => i = j
        /\ chamada.df_novo = <<>> =>
              (di_file = chamada.hist_antes /\ chamada.saida = chamada.hist_antes)

\* a second update on the same day with another rate for a contract already
\* stored: the stored row is gone and the file holds the new rate
C23_Witness ==
    /\ AtualizouHistoricoDI
    /\ \E o \in DOMAIN chamada.hist_antes : \E k \in DOMAIN chamada.df_novo :
          /\ ChaveDI(chamada.hist_antes[o]) = ChaveDI(chamada.df_novo[k])
          /\ chamada.hist_antes[o].taxa # chamada.df_novo[k].taxa
          /\ \A i \in DOMAIN di_file : di_file[i] # chamada.hist_antes[o]
          /\ \E i \in DOMAIN di_file : di_file[i] = chamada.df_novo[k]

-----------------------------------------------------------------------------
(* SpecRetry: the bounded retry loops of _get_with_retry and               *)
(* baixar_serie_ibovespa. rq.attempt is the loop variable, rq.gets counts  *)
(* the requests issued and rq.respostas logs what each request answered.   *)

\* the largest max_attempts / tentativas a caller passes
MaxTentativas == 3

\* requests.exceptions.Timeout and ConnectionError, the errors that are retried
Transitorios == {"Timeout", "ConnectionError"}

\* what one requests.get + raise_for_status (+ the payload checks of
\* baixar_serie_ibovespa) may answer
RespostasHTTP(fn) ==
    {"ok", "Timeout", "ConnectionError", "HTTPError"} \cup
    (IF fn = "baixar_serie_ibovespa" THEN {"ok_vazio"} ELSE {})

\* the exception a failed attempt raises inside the try
excecao_de(resp) == IF resp = "ok_vazio" THEN "ValueError" ELSE resp

\* slip: every RequestException is retried
iteracao_repete_tudo(r, resp) ==
    LET feito == [r EXCEPT !.gets = r.gets + 1, !.respostas = Append(r.respostas, resp)]
    IN  IF resp = "ok"
        THEN [feito EXCEPT !.estado = "retornou"]
        ELSE IF r.attempt = r.max_attempts
             THEN [feito EXCEPT !.last_exc = excecao_de(resp), !.estado = "levantou",
                                !.erro = excecao_de(resp)]
             ELSE [feito EXCEPT !.last_exc = excecao_de(resp), !.attempt = r.attempt + 1]

\* one iteration of `for attempt in range(1, max_attempts + 1)`
iteracao(r, resp) ==
    LET feito == [r EXCEPT !.gets = r.gets + 1, !.respostas = Append(r.respostas, resp)]
    IN  IF resp = "ok"
        THEN [feito EXCEPT !.estado = "retornou"]
        ELSE IF excecao_de(resp) \in Transitorios
             THEN IF r.attempt = r.max_attempts
                  THEN [feito EXCEPT !.last_exc = excecao_de(resp), !.estado = "levantou",
                                     !.erro = excecao_de(resp)]
                  ELSE [feito EXCEPT !.last_exc = excecao_de(resp), !.attempt = r.attempt + 1]
             ELSE [feito EXCEPT !.estado = "levantou", !.erro = excecao_de(resp)]

InitRetry ==
    /\ hist = <<>>
    /\ relogio = DiaInicial
    /\ atualizacoes = 0
    /\ chamada = SemChamada
    /\ td_file = <<>>
    /\ td_cache = CacheVazio
    /\ td_dia = SemDia
    /\ df_dia = <<>>
    /\ anos = Int2F(1)
    /\ linha = NaoCalculada
    /\ spread = NaN
    /\ limiar = Int2F(LIMIAR_BPS)
    /\ sinal = SemSinal
    /\ di_file = <<>>
    /\ rq = SemPedido
    /\ lote = LoteParado
    /\ wr = SemEscritores

\* the call: last_exc = None and the loop variable at 1
Chamar(fn) ==
    /\ rq.estado = "parado"
    /\ \E max \in 1..MaxTentativas :
         rq' = [SemPedido EXCEPT !.fn = fn, !.max_attempts = max, !.attempt = 1,
                                 !.estado = "rodando"]
    /\ UNCHANGED varsCurva
    /\ UNCHANGED varsTesouro
    /\ UNCHANGED varsInterp
    /\ UNCHANGED varsSinal
    /\ UNCHANGED <<di_file, lote, wr>>

ChamarGetWithRetry == Chamar("_get_with_retry")

ChamarBaixarSerieIbovespa == Chamar("baixar_serie_ibovespa")

\* one pass through the loop body: the request and the handling of its outcome
Tentativa ==
    /\ rq.estado = "rodando"
    /\ \E resp \in RespostasHTTP(rq.fn) : rq' = iteracao(rq, resp)
    /\ UNCHANGED varsCurva
    /\ UNCHANGED varsTesouro
    /\ UNCHANGED varsInterp
    /\ UNCHANGED varsSinal
    /\ UNCHANGED <<di_file, lote, wr>>

NextRetry ==
    \/ ChamarGetWithRetry
    \/ ChamarBaixarSerieIbovespa
    \/ Tentativa

SpecRetry == InitRetry /\ [][NextRetry]_vars

\* every request carries a timeout (10 s; (5, 60) s), so a started iteration ends
SpecRetryJusto == SpecRetry /\ WF_vars(Tentativa)

\* the log of a loop in state rq: what may have been answered so far
C24_Limites ==
    rq.estado # "parado" =>
        LET n == Len(rq.respostas)
        IN  /\ rq.gets = n
            /\ n <= rq.max_attempts
            /\ \A i \in 1..(n - 1) : rq.respostas[i] \in Transitorios
            /\ rq.estado = "rodando" =>
                  /\ n < rq.max_attempts
                  /\ \A i \in 1..n : rq.respostas[i] \in Transitorios
            /\ rq.estado = "retornou" => (n >= 1 /\ rq.respostas[n] = "ok")
            /\ rq.estado = "levantou" =>
                  /\ n >= 1
                  /\ rq.respostas[n] # "ok"
                  /\ rq.erro = excecao_de(rq.respostas[n])
                  /\ rq.respostas[n] \in Transitorios => n = rq.max_attempts
            /\ (n >= 1 /\ rq.respostas[n] = "ok") => rq.estado = "retornou"
            /\ (n >= 1 /\ rq.respostas[n] \notin Transitorios \cup {"ok"})
                  => rq.estado = "levantou"

\* C24: with max_attempts >= 1 both loops issue at most max_attempts requests
\* and always terminate; a further request follows only a Timeout or
\* ConnectionError while attempts remain, the first success is returned, the
\* last transient error is raised after max_attempts transient failures, and
\* any other failure is raised at once.
C24_RetryLimitadoETermina ==
    /\ []C24_Limites
    /\ (rq.estado = "rodando") ~> (rq.estado \in {"retornou", "levantou"})

\* a timeout, a connection error and, with the third and last attempt, a
\* timeout again: three requests, the last error raised
C24_Witness ==
    /\ rq.fn = "baixar_serie_ibovespa"
    /\ rq.max_attempts = 3
    /\ rq.respostas = <<"Timeout", "ConnectionError", "Timeout">>
    /\ rq.gets = 3
    /\ rq.estado = "levantou"
    /\ rq.erro = "Timeout"

-----------------------------------------------------------------------------
(* SpecLote: atualiza_dados_pesados.main, the scheduled batch update.      *)
(* lote.pc is the try block about to run, lote.tentados the steps entered  *)
(* so far and lote.falhas the steps whose exception was caught.            *)

\* the six try blocks of main, in source order
PassosDoLote == <<"SGS", "Focus", "ANBIMA", "DI", "Ibovespa", "Tesouro">>

\* slip: the step is called outside a try block
apos_passo_sem_try(l, falhou) ==
    LET entrou == [l EXCEPT !.tentados = Append(l.tentados, PassosDoLote[l.pc])]
    IN  IF falhou
        THEN [entrou EXCEPT !.estado = "propagou"]
        ELSE [entrou EXCEPT !.pc = l.pc + 1,
                            !.estado = IF l.pc = Len(PassosDoLote) THEN "terminou" ELSE "rodando"]

\* try: <step>() ... except Exception as e: print(...), then on to the next block
apos_passo(l, falhou) ==
    [l EXCEPT !.tentados = Append(l.tentados, PassosDoLote[l.pc]),
              !.falhas   = IF falhou THEN l.falhas \cup {PassosDoLote[l.pc]} ELSE l.falhas,
              !.pc       = l.pc + 1,
              !.estado   = IF l.pc = Len(PassosDoLote) THEN "terminou" ELSE "rodando"]

InitLote ==
    /\ hist = <<>>
    /\ relogio = DiaInicial
    /\ atualizacoes = 0
    /\ chamada = SemChamada
    /\ td_file = <<>>
    /\ td_cache = CacheVazio
    /\ td_dia = SemDia
    /\ df_dia = <<>>
    /\ anos = Int2F(1)
    /\ linha = NaoCalculada
    /\ spread = NaN
    /\ limiar = Int2F(LIMIAR_BPS)
    /\ sinal = SemSinal
    /\ di_file = <<>>
    /\ rq = SemPedido
    /\ lote = LoteParado
    /\ wr = SemEscritores

\* main() is entered
ChamarMain ==
    /\ lote.estado = "parado"
    /\ lote' = [LoteParado EXCEPT !.pc = 1, !.estado = "rodando"]
    /\ UNCHANGED varsCurva
    /\ UNCHANGED varsTesouro
    /\ UNCHANGED varsInterp
    /\ UNCHANGED varsSinal
    /\ UNCHANGED <<di_file, rq, wr>>

\* one try block: the step either raises an Exception before it writes, or
\* completes and leaves its file updated (the three histories kept in the model)
Passo ==
    /\ lote.estado = "rodando"
    /\ \E falhou \in BOOLEAN :
         LET p == PassosDoLote[lote.pc]
         IN  /\ lote' = apos_passo(lote, falhou)
             /\ IF ~falhou /\ p = "ANBIMA"
                THEN \E baixado \in _baixar_curva_zero_ultima(relogio) :
                        hist' = _append_historico_full(hist,
                                   IF baixado = <<>> THEN <<>> ELSE com_data_ref(baixado, relogio))
                ELSE hist' = hist
             /\ IF ~falhou /\ p = "DI"
                THEN \E df_novo \in baixar_snapshot_di_futuro(relogio) :
                        di_file' = atualizar_historico_di_futuro(di_file, df_novo).arquivo
                ELSE di_file' = di_file
             /\ IF ~falhou /\ p = "Tesouro"
                THEN \E baixado \in RespostasTesouro \ {FalhaHTTP} :
                        td_file' = atualizar_cache_tesouro_bruto(CacheVazio, td_file, baixado).arquivo
                ELSE td_file' = td_file
    /\ UNCHANGED <<relogio, atualizacoes, chamada>>
    /\ UNCHANGED <<td_cache, td_dia>>
    /\ UNCHANGED varsInterp
    /\ UNCHANGED varsSinal
    /\ UNCHANGED <<rq, wr>>

NextLote ==
    \/ ChamarMain
    \/ Passo

SpecLote == InitLote /\ [][NextLote]_vars

\* every step ends: its requests carry timeouts and its loops are bounded
SpecLoteJusto == SpecLote /\ WF_vars(Passo)

\* the first n steps of main, in order
PrimeirosPassos(n) == [i \in 1..n |-> PassosDoLote[i]]

C25_EmOrdemUmaVez ==
    /\ lote.estado # "propagou"
    /\ lote.estado = "rodando" =>
          (lote.pc \in 1..Len(PassosDoLote) /\ lote.tentados = PrimeirosPassos(lote.pc - 1))
    /\ lote.estado = "terminou" => lote.tentados = PassosDoLote
    /\ lote.falhas \subseteq {lote.tentados[i] : i \in DOMAIN lote.tentados}

\* C25: main attempts each of the six update steps exactly once, in the order
\* SGS, Focus, ANBIMA curves, DI futures, Ibovespa, Tesouro Direto; an exception
\* raised by a step does not prevent the later steps, and main always reaches
\* its end without propagating an exception.
C25_SeisPassosSempreAteOFim ==
    /\ []C25_EmOrdemUmaVez
    /\ (lote.estado = "rodando") ~> (lote.estado = "terminou")

\* the first and the fourth step raised, and main still ran all six to the end
C25_Witness ==
    /\ lote.estado = "terminou"
    /\ lote.tentados = PassosDoLote
    /\ lote.falhas = {"SGS", "DI"}
    /\ hist # <<>>
    /\ td_file # <<>>

-----------------------------------------------------------------------------
(* SpecEscritores: two processes executing _append_historico_full on the   *)
(* same history file without a lock. wr.e[w] is the execution of process   *)
(* w: where it stands, the history it read and the batch it was given;     *)
(* wr.n numbers the steps taken and wr.inicial is the file before them.    *)

\* the processes that may call atualizar_todas_as_curvas: the scheduled job and the panel
Escritores == {"lote", "painel"}

Ocioso == [pc |-> "ocioso", df_old |-> <<>>, df_new |-> <<>>, leu_em |-> 0, escreveu_em |-> 0]

\* the batches handed to _append_historico_full: today's downloads
LotesDeCurva ==
    {IF b = <<>> THEN <<>> ELSE com_data_ref(b, DiaInicial) : b \in _baixar_curva_zero_ultima(DiaInicial)}

\* slip: the history is read again at the moment of writing
df_old_na_escrita_relido(lido, arquivo) == arquivo

\* the df_old used by pd.concat is the frame read earlier by this execution
df_old_na_escrita(lido, arquivo) == lido

InitEscritores ==
    /\ hist \in HistoricosCmp
    /\ relogio = DiaInicial
    /\ atualizacoes = 0
    /\ chamada = SemChamada
    /\ td_file = <<>>
    /\ td_cache = CacheVazio
    /\ td_dia = SemDia
    /\ df_dia = <<>>
    /\ anos = Int2F(1)
    /\ linha = NaoCalculada
    /\ spread = NaN
    /\ limiar = Int2F(LIMIAR_BPS)
    /\ sinal = SemSinal
    /\ di_file = <<>>
    /\ rq = SemPedido
    /\ lote = LoteParado
    /\ wr = [n |-> 0, inicial |-> hist, e |-> [w \in Escritores |-> Ocioso]]

\* _append_historico_full(df_new) up to the read_csv: returns at once on an
\* empty batch, else reads the file into df_old
LerHistorico(w) ==
    /\ wr.e[w].pc = "ocioso"
    /\ \E df_new \in LotesDeCurva :
         wr' = [wr EXCEPT !.n = wr.n + 1,
                          !.e[w] = IF df_new = <<>>
                                   THEN [Ocioso EXCEPT !.pc = "retornou"]
                                   ELSE [pc |-> "leu", df_old |-> hist, df_new |-> df_new,
                                         leu_em |-> wr.n + 1, escreveu_em |-> 0]]
    /\ UNCHANGED varsCurva
    /\ UNCHANGED varsTesouro
    /\ UNCHANGED varsInterp
    /\ UNCHANGED varsSinal
    /\ UNCHANGED <<di_file, rq, lote>>

\* the rest of _append_historico_full: concat, drop_duplicates, to_csv
EscreverHistorico(w) ==
    /\ wr.e[w].pc = "leu"
    /\ hist' = _append_historico_full(df_old_na_escrita(wr.e[w].df_old, hist), wr.e[w].df_new)
    /\ wr' = [wr EXCEPT !.n = wr.n + 1,
                        !.e[w].pc = "escreveu",
                        !.e[w].escreveu_em = wr.n + 1]
    /\ UNCHANGED <<relogio, atualizacoes, chamada>>
    /\ UNCHANGED varsTesouro
    /\ UNCHANGED varsInterp
    /\ UNCHANGED varsSinal
    /\ UNCHANGED <<di_file, rq, lote>>

NextEscritores ==
    \/ \E w \in Escritores : LerHistorico(w)
    \/ \E w \in Escritores : EscreverHistorico(w)

SpecEscritores == InitEscritores /\ [][NextEscritores]_vars

\* both executions wrote; a wrote first, b last
EscreveramNaOrdem(a, b) ==
    /\ wr.e # <<>>
    /\ a # b
    /\ wr.e[a].pc = "escreveu" /\ wr.e[b].pc = "escreveu"
    /\ wr.e[a].escreveu_em < wr.e[b].escreveu_em

\* both read the old history before either wrote
LeramAntesDeEscrever(a, b) ==
    /\ wr.e[a].leu_em < wr.e[a].escreveu_em
    /\ wr.e[b].leu_em < wr.e[a].escreveu_em

TemLinha(df, r) == \E i \in DOMAIN df : df[i] = r
TemChave(df, r) == \E i \in DOMAIN df : Chave(df[i]) = Chave(r)

\* C26: the history file is written without a lock. When two executions of
\* _append_historico_full both read the old history before either writes, the
\* final file is the old history plus the later writer's batch only, and the
\* rows of the other batch are lost; when the executions do not overlap (a
\* single writer) every key of both batches is in the file.
C26_AtualizacaoPerdidaSemLock ==
    \A a, b \in Escritores :
        EscreveramNaOrdem(a, b) =>
            IF LeramAntesDeEscrever(a, b)
            THEN /\ hist = _append_historico_full(wr.inicial, wr.e[b].df_new)
                 /\ \A k \in DOMAIN wr.e[a].df_new :
                       (~TemChave(wr.inicial, wr.e[a].df_new[k])
                        /\ ~TemChave(wr.e[b].df_new, wr.e[a].df_new[k]))
                           => ~TemChave(hist, wr.e[a].df_new[k])
            ELSE /\ hist = _append_historico_full(
                              _append_historico_full(wr.inicial, wr.e[a].df_new),
                              wr.e[b].df_new)
                 /\ \A k \in DOMAIN wr.e[a].df_new : TemChave(hist, wr.e[a].df_new[k])
                 /\ \A k \in DOMAIN wr.e[b].df_new : TemLinha(hist, wr.e[b].df_new[k])

\* the job and the panel both read the old history, then stored curves of
\* different dates: the file holds the later batch and nothing of the earlier one
C26_Witness ==
    /\ wr.e # <<>>
    /\ \E a, b \in Escritores :
          /\ EscreveramNaOrdem(a, b)
          /\ LeramAntesDeEscrever(a, b)
          /\ wr.inicial # <<>>
          /\ wr.e[a].df_new[1].data_curva # wr.e[b].df_new[1].data_curva
          /\ \A k \in DOMAIN wr.e[a].df_new : ~TemChave(hist, wr.e[a].df_new[k])
          /\ \A k \in DOMAIN wr.e[b].df_new : TemLinha(hist, wr.e[b].df_new[k])
          /\ \A k \in DOMAIN wr.inicial : TemChave(hist, wr.inicial[k])

-----------------------------------------------------------------------------
(* More properties of the history file and of the curve tables (Spec).     *)

\* an update stored a batch whose curve date was already in the history
RegravouUmaData ==
    /\ chamada.op = "atualizar"
    /\ chamada.df_curva # <<>>
    /\ do_dia(chamada.hist_antes, chamada.df_curva[1].data_curva) # <<>>

\* C28 as claimed: after atualizar_todas_as_curvas stores a batch for a curve date
\* already in the history, the snapshot of that date consists exactly of the
\* tenors and rates of the new batch; no tenor row of an earlier download survives.
C28_SnapshotEOLoteNovo ==
    RegravouUmaData =>
        LET snap == do_dia(hist, chamada.df_curva[1].data_curva)
        IN  /\ \A k \in DOMAIN chamada.df_curva : TemLinha(snap, chamada.df_curva[k])
            /\ \A i \in DOMAIN snap : TemLinha(chamada.df_curva, snap[i])

\* C28 as amended: after such an update the snapshot of that date holds every
\* row of the new batch, and besides them exactly the rows stored before for
\* that date whose tenor is not in the new batch.
C28_SnapshotELoteNovoMaisPrazosAusentes ==
    RegravouUmaData =>
        LET d     == chamada.df_curva[1].data_curva
            snap  == do_dia(hist, d)
            antes == do_dia(chamada.hist_antes, d)
        IN  /\ \A k \in DOMAIN chamada.df_curva : TemLinha(snap, chamada.df_curva[k])
            /\ \A o \in DOMAIN antes :
                  ~TemChave(chamada.df_curva, antes[o]) => TemLinha(snap, antes[o])
            /\ \A i \in DOMAIN snap :
                  \/ TemLinha(chamada.df_curva, snap[i])
                  \/ TemLinha(antes, snap[i]) /\ ~TemChave(chamada.df_curva, snap[i])
            /\ \A i, j \in DOMAIN snap : Chave(snap[i]) = Chave(snap[j]) => i = j

\* the date was stored with tenors 504 and 1008; the new batch for it has tenor
\* 504 only, at another rate: the snapshot holds the new 504 and the old 1008
C28_Witness ==
    /\ RegravouUmaData
    /\ LET d     == chamada.df_curva[1].data_curva
           snap  == do_dia(hist, d)
           antes == do_dia(chamada.hist_antes, d)
       IN  /\ Len(chamada.df_curva) = 1
           /\ chamada.df_curva[1].PRAZO_DU = 504
           /\ Len(antes) = 2
           /\ \E o \in DOMAIN antes :
                 antes[o].PRAZO_DU = 504 /\ antes[o].TAXA_PREF # chamada.df_curva[1].TAXA_PREF
           /\ Len(snap) = 2
           /\ TemLinha(snap, chamada.df_curva[1])
           /\ \E o \in DOMAIN antes : antes[o].PRAZO_DU = 1008 /\ TemLinha(snap, antes[o])

\* the "Hoje" row h of the variations table and the row l of today's table agree
MesmasTaxas(h, l) ==
    /\ h.Data = "Hoje"
    /\ h.Juro_Nominal = l.Juro_Nominal
    /\ h.Juro_Real = l.Juro_Real
    /\ h.Breakeven = l.Breakeven

\* C30: with a non-empty history, the "Hoje" row of
\* montar_curva_anbima_variacoes(anos = v) holds the nominal, real and breakeven
\* values of the row of vertex v of montar_curva_anbima_hoje, for every v of the
\* 15-point ladder, and montar_curva_anbima_hoje returns exactly 15 rows that
\* all carry the same curve date.
C30_HojeIgualNasDuasTabelas ==
    /\ (chamada.op = "hoje" /\ hist # <<>>) =>
          /\ Len(chamada.saida) = 15
          /\ \A i \in DOMAIN chamada.saida :
                /\ chamada.saida[i].Vertice_anos = vertices[i]
                /\ chamada.saida[i].Data_da_curva = chamada.saida[1].Data_da_curva
                /\ MesmasTaxas(montar_curva_anbima_variacoes(hist, Int2F(vertices[i]))[1],
                               chamada.saida[i])
    /\ (chamada.op = "variacoes" /\ hist # <<>>) =>
          LET tabela == montar_curva_anbima_hoje(hist)
          IN  \A i \in DOMAIN vertices :
                 vertices[i] = chamada.anos =>
                    (tabela[i].Vertice_anos = chamada.anos /\ MesmasTaxas(chamada.saida[1], tabela[i]))

\* two curve dates on file with different 2-year rates: the "Hoje" row of the
\* 2-year variations table shows the rates of the 2-year row of today's table,
\* not those of the older curve shown in "D-1"
C30_Witness ==
    /\ chamada.op = "variacoes"
    /\ chamada.anos = 2
    /\ hist # <<>>
    /\ Cardinality(DatasDoHistorico) >= 2
    /\ MesmasTaxas(chamada.saida[1], montar_curva_anbima_hoje(hist)[2])
    /\ notnull(chamada.saida[1].Breakeven)
    /\ notnull(chamada.saida[2].Juro_Nominal)
    /\ chamada.saida[2].Juro_Nominal # chamada.saida[1].Juro_Nominal

-----------------------------------------------------------------------------
(* SpecPainel: the short-term panel reading the 2- and 5-year prefixed     *)
(* rates while atualizar_todas_as_curvas stores curves. Paths are lists of *)
(* components below the directory of the modules, where the application    *)
(* and the batch job are started.                                          *)

\* curvas_anbima: BASE_DIR = "data/curvas_anbima"; PATH_FULL = BASE_DIR/curvas_anbima_full.csv
PATH_FULL == <<"data", "curvas_anbima", "curvas_anbima_full.csv">>

\* dados_curto_prazo_br: BASE_DIR / "data" / "curvas_tesouro" / "curvas_anbima" / "curvas_anbima_full.csv"
CAMINHO_CURVAS_ANBIMA == <<"data", "curvas_tesouro", "curvas_anbima", "curvas_anbima_full.csv">>

\* what CAMINHO_CURVAS_ANBIMA may hold when it is not PATH_FULL: nothing, or a
\* history left there by other means
CopiasDoPainel == HistoricosCmp

\* _carregar_curvas_anbima_full(): the rows of the file at CAMINHO_CURVAS_ANBIMA
\* (<<>> for None), sorted by (data_curva, PRAZO_DU)
_carregar_curvas_anbima_full(arquivo, copia) ==
    IF CAMINHO_CURVAS_ANBIMA = PATH_FULL THEN arquivo ELSE copia

\* float(linha["TAXA_PREF"].iloc[0]) of the rows with the given tenor, None without one
taxa_pref_do_prazo(df_ult, prazo) ==
    LET do_prazo == SelectSeq(df_ult, LAMBDA r : r.PRAZO_DU = prazo)
    IN  IF do_prazo = <<>> THEN None ELSE do_prazo[1].TAXA_PREF

\* _obter_taxas_pref_2e5_anos() on the frame loaded: (ultima_data, taxa_2a, taxa_5a)
_obter_taxas_pref_2e5_anos(df) ==
    IF df = <<>>
    THEN [ultima_data |-> SemData, taxa_2a |-> None, taxa_5a |-> None]
    ELSE LET ultima_data == max_data_curva(df)
             df_ult      == SortPorPrazo(do_dia(df, ultima_data))
         IN  [ultima_data |-> ComData(ultima_data),
              taxa_2a |-> taxa_pref_do_prazo(df_ult, DU_POR_ANO * 2),
              taxa_5a |-> taxa_pref_do_prazo(df_ult, DU_POR_ANO * 5)]

ObterTaxasPref2e5Anos ==
    /\ \E copia \in CopiasDoPainel :
         LET df == _carregar_curvas_anbima_full(hist, copia)
         IN  chamada' = [SemChamada EXCEPT !.op = "taxas_pref", !.quando = relogio,
                                          !.arquivo_antes = copia,
                                          !.saida = <<_obter_taxas_pref_2e5_anos(df)>>,
                                          !.anterior = Resumo(chamada)]
    /\ UNCHANGED <<hist, relogio, atualizacoes>>
    /\ UNCHANGED varsTesouro
    /\ UNCHANGED varsInterp
    /\ UNCHANGED varsSinal
    /\ UNCHANGED varsOutros

NextPainel ==
    \/ AtualizarTodasAsCurvas
    \/ ObterTaxasPref2e5Anos
    \/ ViraODia

SpecPainel == Init /\ [][NextPainel]_vars

\* C29 as claimed: the history file written by atualizar_todas_as_curvas is the
\* file read by _obter_taxas_pref_2e5_anos, so after a successful update the
\* date and the 2-year (504 bd) and 5-year (1260 bd) prefixed rates it returns
\* are those of the latest snapshot now stored.
C29_PainelLeOHistoricoGravado ==
    (chamada.op = "taxas_pref" /\ atualizacoes > 0 /\ hist # <<>>) =>
        LET d    == UltimaDataDoHistorico
            snap == do_dia(hist, d)
            r    == chamada.saida[1]
        IN  /\ r.ultima_data = ComData(d)
            /\ \A i \in DOMAIN snap :
                  /\ snap[i].PRAZO_DU = 504 => r.taxa_2a = snap[i].TAXA_PREF
                  /\ snap[i].PRAZO_DU = 1260 => r.taxa_5a = snap[i].TAXA_PREF

\* a curve with the 504-bd tenor was just stored and the panel, finding no file
\* at its own path, returns no date and no rates
C29_Witness ==
    /\ chamada.op = "taxas_pref"
    /\ chamada.anterior.op = "atualizar"
    /\ hist # <<>>
    /\ \E i \in DOMAIN hist :
          hist[i].data_curva = UltimaDataDoHistorico /\ hist[i].PRAZO_DU = 504
    /\ chamada.arquivo_antes = <<>>
    /\ chamada.saida[1].ultima_data = SemData
    /\ chamada.saida[1].taxa_2a = None

====
